---- MODULE Spec2Model ----
(***************************************************************************)
(* SIMachineFunctionInfo: the per-function AMDGPU kernel-ABI and register  *)
(* budget tracker (lib/Target/AMDGPU/SIMachineFunctionInfo.cpp).           *)
(*                                                                         *)
(* Three specifications share one set of variables:                        *)
(*   SpecCtor   the constructor applied to a function and its subtarget    *)
(*   SpecSGPR   the user / system SGPR budget allocator (add* calls)       *)
(*   SpecSpill  allocateSGPRSpillToVGPR with the host's frame and register *)
(*              state around it                                            *)
(*   SpecOcc    the constructor's occupancy and limitOccupancy(MF)         *)
(* The integer attribute overrides (amdgpu-git-ptr-high, ...) and the PS   *)
(* input mask of the constructor are not tracked.                          *)
(***************************************************************************)
EXTENDS Integers, Sequences, FiniteSets, TLC

VARIABLES
    pc,                 \* "unconstructed" | "live" | "aborted" (an assert fired) |
                        \* "saved" | "parsed" (the snapshot was written, was read)
    F,                  \* the llvm::Function and GCNSubtarget facts the code reads
    HasStackObjects,    \* MachineFrameInfo::hasStackObjects() at construction
    IsEntryFunction,    \* AMDGPUMachineFunction::IsEntryFunction
    Flags,              \* the bool members PrivateSegmentBuffer .. ImplicitArgPtr
    Regs,               \* ScratchRSrcReg, ScratchWaveOffsetReg, FrameOffsetReg, StackPtrOffsetReg
    ArgInfo,            \* AMDGPUFunctionArgInfo: one ArgDescriptor per input kind
    NumUserSGPRs,
    NumSystemSGPRs,
    SGPRToVGPRSpills,   \* DenseMap<int, std::vector<SpilledReg>>: FI -> lanes
    NumVGPRSpillLanes,
    SpillVGPRs,         \* SmallVector<SGPRSpillVGPRCSR>
    WaveSize,           \* GCNSubtarget::getWavefrontSize()
    Objects,            \* MachineFrameInfo's stack objects, Objects[FI + 1]
    HasCalls,           \* MachineFrameInfo::hasCalls()
    CSRegs,             \* MachineRegisterInfo::getCalleeSavedRegs(), as a set
    UsedPhysRegs,       \* the VGPRs MachineRegisterInfo::isPhysRegUsed holds for
    LiveIns,            \* LiveIns[b]: the live-in registers of basic block b
    calls,              \* how many add* calls of each width have completed
    ret,                \* the last call of the tracker: what was called, with what,
                        \* and its result
    Occupancy,          \* SIMachineFunctionInfo::Occupancy
    WavesPerEU,         \* the pair ST.getWavesPerEU(F) gave the constructor
    Base,               \* the AMDGPUMachineFunction members: ExplicitKernArgSize,
                        \* MaxKernArgAlign, LDSSize, NoSignedZerosFPMath,
                        \* MemoryBound, WaveLimiter
    YamlMFI,            \* the yaml::SIMachineFunctionInfo snapshot at hand
    Diag,               \* the SMDiagnostic Error and the SMRange SourceRange
    SubtargetMap,       \* StringMap<std::unique_ptr<Subtarget>> of the target machine
    Subtargets,         \* the subtarget objects constructed so far
    thr,                \* the threads inside getSubtargetImpl and their locals
    tm                  \* the target machine: its kind, the ScalarizeGlobal option,
                        \* the resetTargetOptions calls made, the log of the
                        \* getSubtargetImpl calls that returned

vars == <<pc, F, HasStackObjects, IsEntryFunction, Flags, Regs, ArgInfo,
          NumUserSGPRs, NumSystemSGPRs, SGPRToVGPRSpills, NumVGPRSpillLanes,
          SpillVGPRs, WaveSize, Objects, HasCalls, CSRegs, UsedPhysRegs,
          LiveIns, calls, ret, Occupancy, WavesPerEU, Base, YamlMFI, Diag,
          SubtargetMap, Subtargets, thr, tm>>

mfiVars == <<IsEntryFunction, Flags, Regs, ArgInfo, NumUserSGPRs, NumSystemSGPRs>>
spillVars == <<SGPRToVGPRSpills, NumVGPRSpillLanes, SpillVGPRs>>
hostVars == <<WaveSize, Objects, HasCalls, CSRegs, UsedPhysRegs, LiveIns>>
occVars == <<Occupancy, WavesPerEU, Base>>
yamlVars == <<YamlMFI, Diag>>
tmVars == <<SubtargetMap, Subtargets, thr, tm>>

(***************************************************************************)
(* Bounds of the model.                                                    *)
(***************************************************************************)
MaxAttrs == 2        \* function attributes present on one function
MaxUserCalls == 3    \* add<UserInput> calls made on one function
MaxSystemCalls == 2  \* system SGPR allocations made on one function
MaxFrames == 2       \* SGPR spill stack objects the host creates
NumVGPRs == 1        \* registers of VGPR_32 the model knows
NumBlocks == 2       \* basic blocks of the function
MaxWaves == 4        \* the target's maximum waves per execution unit
MaxLDS == 4          \* the largest local-memory size, in allocation units
LocalMemWaves == 6   \* local memory of a compute unit per work group, times
                     \* the maximum waves, in allocation units
MaxLookups == 3      \* getSubtargetImpl calls made one after another
MaxThreadCalls == 1  \* getSubtargetImpl calls one thread makes

(***************************************************************************)
(* Registers.  A register is its class and the index of its first 32-bit   *)
(* register: SGPR4_SGPR5 is [cls |-> "SReg_64", idx |-> 4].                *)
(***************************************************************************)
NoRegister == [cls |-> "NoRegister", idx |-> 0]

SGPR(i) == [cls |-> "SGPR_32", idx |-> i]

VGPR(i) == [cls |-> "VGPR_32", idx |-> i]

VGPR_32RegClass == {VGPR(i) : i \in 0 .. NumVGPRs - 1}

\* The width, in 32-bit registers, of a scalar tuple class.
RegClassSize(RC) ==
    CASE RC = "SReg_128" -> 4
      [] RC = "SReg_64" -> 2
      [] OTHER -> 1

\* TargetRegisterInfo::getMatchingSuperReg(Reg, AMDGPU::sub0, RC): the tuple of
\* RC whose first register is Reg.  The tuple classes hold aligned groups only
\* (an aligned group of 4 for SReg_128, an aligned pair for SReg_64), so a
\* misaligned Reg has no super-register and the result is NoRegister.
getMatchingSuperReg(Reg, RC) ==
    IF Reg.cls = "SGPR_32" /\ Reg.idx % RegClassSize(RC) = 0
    THEN [cls |-> RC, idx |-> Reg.idx]
    ELSE NoRegister

\* The placeholder registers the fixed-register members start as, until frame
\* lowering picks real ones.
PRIVATE_RSRC_REG == [cls |-> "PRIVATE_RSRC_REG", idx |-> 0]

SCRATCH_WAVE_OFFSET_REG == [cls |-> "SCRATCH_WAVE_OFFSET_REG", idx |-> 0]

FP_REG == [cls |-> "FP_REG", idx |-> 0]

SP_REG == [cls |-> "SP_REG", idx |-> 0]

\* The highest SGPR the code names (AMDGPU::SGPR33).
HighestSGPR == 33

\* The registers of the target the model knows: the SGPRs, their aligned
\* pairs and groups of 4, the VGPRs, the placeholders and NoRegister.
AllRegs ==
    {NoRegister, PRIVATE_RSRC_REG, SCRATCH_WAVE_OFFSET_REG, FP_REG, SP_REG}
        \cup {SGPR(i) : i \in 0 .. HighestSGPR}
        \cup {[cls |-> "SReg_64", idx |-> i] :
                 i \in {j \in 0 .. HighestSGPR - 1 : j % 2 = 0}}
        \cup {[cls |-> "SReg_128", idx |-> i] :
                 i \in {j \in 0 .. HighestSGPR - 3 : j % 4 = 0}}
        \cup VGPR_32RegClass

\* TargetRegisterClass::contains(Reg) for the classes the code names.
RegClassContains(RC, Reg) == Reg \in AllRegs /\ Reg.cls = RC

\* printReg(Reg, &TRI): "$" and the register's name in lower case, a tuple by
\* the names of its registers ($sgpr4_sgpr5), register 0 as $noreg.  A name
\* is the sequence of its prefix and its register indices.
printReg(Reg) ==
    CASE Reg.cls = "NoRegister" -> <<"$noreg">>
      [] Reg.cls = "PRIVATE_RSRC_REG" -> <<"$private_rsrc_reg">>
      [] Reg.cls = "SCRATCH_WAVE_OFFSET_REG" -> <<"$scratch_wave_offset_reg">>
      [] Reg.cls = "FP_REG" -> <<"$fp_reg">>
      [] Reg.cls = "SP_REG" -> <<"$sp_reg">>
      [] Reg.cls = "VGPR_32" -> <<"$vgpr", Reg.idx>>
      [] Reg.cls = "SGPR_32" -> <<"$sgpr", Reg.idx>>
      [] Reg.cls = "SReg_64" -> <<"$sgpr", Reg.idx, Reg.idx + 1>>
      [] Reg.cls = "SReg_128" ->
             <<"$sgpr", Reg.idx, Reg.idx + 1, Reg.idx + 2, Reg.idx + 3>>

\* parseNamedRegisterReference(PFS, Reg, Name, Error): the register of that
\* name; an error ("unknown register name") when the target has none.
parseNamedRegisterReference(Name) ==
    LET found == {Reg \in AllRegs : printReg(Reg) = Name}
    IN  IF found = {}
        THEN [error |-> TRUE, Reg |-> NoRegister]
        ELSE [error |-> FALSE, Reg |-> CHOOSE Reg \in found : TRUE]

(***************************************************************************)
(* ArgDescriptor (absent, a register, or a stack offset; Mask -1 is ~0u,   *)
(* the whole width).                                                       *)
(***************************************************************************)
Absent ==
    [IsSet |-> FALSE, IsStack |-> FALSE, Register |-> NoRegister,
     StackOffset |-> 0, Mask |-> -1]

createRegister(Reg) ==
    [IsSet |-> TRUE, IsStack |-> FALSE, Register |-> Reg,
     StackOffset |-> 0, Mask |-> -1]

\* ArgDescriptor::createStack(Offset)
createStack(Offset) ==
    [IsSet |-> TRUE, IsStack |-> TRUE, Register |-> NoRegister,
     StackOffset |-> Offset, Mask |-> -1]

\* ArgDescriptor::createArg(Arg, Mask): Arg with that mask.
createArg(Arg, Mask) == [Arg EXCEPT !.Mask = Mask]

\* ArgDescriptor::isMasked(): Mask != ~0u
isMasked(Arg) == Arg.Mask # -1

ArgKinds ==
    {"PrivateSegmentBuffer", "DispatchPtr", "QueuePtr", "KernargSegmentPtr",
     "DispatchID", "FlatScratchInit", "PrivateSegmentSize", "WorkGroupIDX",
     "WorkGroupIDY", "WorkGroupIDZ", "WorkGroupInfo",
     "PrivateSegmentWaveByteOffset", "ImplicitArgPtr", "ImplicitBufferPtr",
     "WorkItemIDX", "WorkItemIDY", "WorkItemIDZ"}

EmptyArgInfo == [k \in ArgKinds |-> Absent]

(***************************************************************************)
(* Occupancy: Occupancy = getMaxWavesPerEU(); limitOccupancy(MF).          *)
(***************************************************************************)
Min(a, b) == IF a <= b THEN a ELSE b

Max(a, b) == IF a >= b THEN a ELSE b

\* ST.getWavesPerEU(F): the requested (minimum, maximum) waves per execution
\* unit, the default or the amdgpu-waves-per-eu attribute, kept within the
\* target's range.
WavesPerEUValues ==
    {w \in [first : 1 .. MaxWaves, second : 1 .. MaxWaves] : w.first <= w.second}

DefaultWavesPerEU == [first |-> 1, second |-> MaxWaves]

\* getMaxWavesPerEU(): WavesPerEU.second
getMaxWavesPerEU(wpe) == wpe.second

\* A variant of getOccupancyWithLocalMemSize that forgets to divide: a function
\* that uses local memory gets its byte count for the number of waves.
getOccupancyWithLocalMemSizeBytes(Bytes) ==
    LET NumWaves == IF Bytes = 0 THEN LocalMemWaves ELSE Bytes
    IN  Max(Min(NumWaves, MaxWaves), 1)

\* ST.getOccupancyWithLocalMemSize(Bytes, F): the waves the compute unit's
\* local memory leaves room for when every work group takes Bytes of it, at
\* least 1 and at most the target's maximum.
getOccupancyWithLocalMemSize(Bytes) ==
    LET NumWaves == LocalMemWaves \div (IF Bytes = 0 THEN 1 ELSE Bytes)
    IN  Max(Min(NumWaves, MaxWaves), 1)

\* limitOccupancy(unsigned Limit): if (Occupancy > Limit) Occupancy = Limit;
limitOccupancyTo(Occ, Limit) == IF Occ > Limit THEN Limit ELSE Occ

\* A variant of InitialOccupancy that leaves the member zero.
InitialOccupancyZero(wpe) == 0

\* Occupancy = getMaxWavesPerEU();
InitialOccupancy(wpe) == getMaxWavesPerEU(wpe)

\* A variant of limitOccupancyMF that forgets the local-memory limit.
limitOccupancyMFNoLDS(Occ, wpe, LDSSize) ==
    limitOccupancyTo(Occ, getMaxWavesPerEU(wpe))

\* limitOccupancy(MF): limitOccupancy(getMaxWavesPerEU()); then
\* limitOccupancy(ST.getOccupancyWithLocalMemSize(getLDSSize(), F)).  The
\* value of Occupancy it leaves.
limitOccupancyMF(Occ, wpe, LDSSize) ==
    limitOccupancyTo(limitOccupancyTo(Occ, getMaxWavesPerEU(wpe)),
                     getOccupancyWithLocalMemSize(LDSSize))

\* The constructor's Occupancy: lines "Occupancy = getMaxWavesPerEU();
\* limitOccupancy(MF);".
CtorOccupancy(wpe, LDSSize) ==
    limitOccupancyMF(InitialOccupancy(wpe), wpe, LDSSize)

\* The AMDGPUMachineFunction members of a function without kernel arguments,
\* local memory or performance hints.
DefaultBase ==
    [ExplicitKernArgSize |-> 0, MaxKernArgAlign |-> 0, LDSSize |-> 0,
     NoSignedZerosFPMath |-> FALSE, MemoryBound |-> FALSE,
     WaveLimiter |-> FALSE]

\* ST.getAlignmentForImplicitArgPtr(): 8 on amdhsa, 4 elsewhere.
getAlignmentForImplicitArgPtr(f) == IF f.IsAmdHsaOrMesa THEN 8 ELSE 4

\* The snapshot, the diagnostic and the subtarget cache when nothing has
\* touched them.
NoYaml == [present |-> FALSE]

NoDiag == [Error |-> "none", SourceRange |-> "none"]

IdleYaml == YamlMFI = NoYaml /\ Diag = NoDiag

IdleTM ==
    /\ SubtargetMap = << >>
    /\ Subtargets = << >>
    /\ thr = << >>
    /\ tm = [kind |-> "GCN", ScalarizeGlobal |-> TRUE, resets |-> 0,
             log |-> << >>]

(***************************************************************************)
(* The constructor, SIMachineFunctionInfo::SIMachineFunctionInfo(MF).      *)
(***************************************************************************)
CallingConvs == {"AMDGPU_KERNEL", "SPIR_KERNEL", "AMDGPU_PS", "AMDGPU_GS", "C"}

\* AMDGPU::isEntryFunctionCC: the kernel and shader conventions are entry
\* points, an ordinary callable function is not.
isEntryFunctionCC(CC) == CC # "C"

Attributes ==
    {"amdgpu-implicitarg-ptr", "amdgpu-work-group-id-x", "amdgpu-work-group-id-y",
     "amdgpu-work-group-id-z", "amdgpu-work-item-id-x", "amdgpu-work-item-id-y",
     "amdgpu-work-item-id-z", "amdgpu-dispatch-ptr", "amdgpu-queue-ptr",
     "amdgpu-dispatch-id", "amdgpu-kernarg-segment-ptr", "amdgpu-flat-scratch"}

FlagNames ==
    {"PrivateSegmentBuffer", "DispatchPtr", "QueuePtr", "KernargSegmentPtr",
     "DispatchID", "FlatScratchInit", "WorkGroupIDX", "WorkGroupIDY",
     "WorkGroupIDZ", "WorkGroupInfo", "PrivateSegmentWaveByteOffset",
     "WorkItemIDX", "WorkItemIDY", "WorkItemIDZ", "ImplicitBufferPtr",
     "ImplicitArgPtr"}

\* The member initialisers: every need flag starts false.
InitFlags == [n \in FlagNames |-> FALSE]

\* The member initialisers of the four fixed registers: the placeholders.
DefaultRegs ==
    [ScratchRSrcReg |-> PRIVATE_RSRC_REG,
     ScratchWaveOffsetReg |-> SCRATCH_WAVE_OFFSET_REG,
     FrameOffsetReg |-> FP_REG, StackPtrOffsetReg |-> SP_REG]

\* The empty DenseMap.
EmptyMap == [FI \in {} |-> << >>]

\* The functions and subtargets the constructor is applied to.
FunctionInputs ==
    [CC : CallingConvs,
     Attrs : {A \in SUBSET Attributes : Cardinality(A) <= MaxAttrs},
     ArgEmpty : BOOLEAN,
     GFX9 : BOOLEAN,              \* ST.getGeneration() >= AMDGPUSubtarget::GFX9
     IsAmdHsaOrMesa : BOOLEAN,    \* ST.isAmdHsaOrMesa(F)
     IsMesaGfxShader : BOOLEAN,   \* ST.isMesaGfxShader(F)
     HasFlatAddressSpace : BOOLEAN]

\* A variant of WorkItemIDYForEntry that forgets the dependency.
WorkItemIDYForEntryNoForce(isEntry, Y, Z) == Y

\* "X, XY, and XYZ are the only supported combinations, so make sure Y is
\* enabled if Z is": WorkItemIDY after the isEntryFunction() block.
WorkItemIDYForEntry(isEntry, Y, Z) == IF isEntry /\ Z THEN TRUE ELSE Y

\* A variant of FlatScratchInitNeeded that looks at the attribute only.
FlatScratchInitNeededByAttribute(f, isEntry, hasStackObjects) ==
    /\ f.HasFlatAddressSpace /\ isEntry /\ f.IsAmdHsaOrMesa
    /\ "amdgpu-flat-scratch" \in f.Attrs

\* ST.hasFlatAddressSpace() && isEntryFunction() && isAmdHsaOrMesa, and then
\* HasStackObjects || F.hasFnAttribute("amdgpu-flat-scratch").
FlatScratchInitNeeded(f, isEntry, hasStackObjects) ==
    /\ f.HasFlatAddressSpace /\ isEntry /\ f.IsAmdHsaOrMesa
    /\ (hasStackObjects \/ "amdgpu-flat-scratch" \in f.Attrs)

\* The need flags the constructor leaves, in the order of its statements.
CtorFlags(f, hasStackObjects) ==
    LET Has(a) == a \in f.Attrs
        isEntry == isEntryFunctionCC(f.CC)
        isKernel == f.CC \in {"AMDGPU_KERNEL", "SPIR_KERNEL"}
        f1 == [InitFlags EXCEPT
                 !.KernargSegmentPtr = isKernel /\ ~f.ArgEmpty,
                 !.WorkGroupIDX = isKernel,
                 !.WorkItemIDX = isKernel]
        f2 == IF ~isEntry
              THEN [f1 EXCEPT !.ImplicitArgPtr = Has("amdgpu-implicitarg-ptr")]
              ELSE [f1 EXCEPT !.KernargSegmentPtr =
                                 @ \/ Has("amdgpu-implicitarg-ptr")]
        f3 == [f2 EXCEPT
                 !.WorkGroupIDX = @ \/ Has("amdgpu-work-group-id-x"),
                 !.WorkGroupIDY = @ \/ Has("amdgpu-work-group-id-y"),
                 !.WorkGroupIDZ = @ \/ Has("amdgpu-work-group-id-z"),
                 !.WorkItemIDX = @ \/ Has("amdgpu-work-item-id-x"),
                 !.WorkItemIDY = @ \/ Has("amdgpu-work-item-id-y"),
                 !.WorkItemIDZ = @ \/ Has("amdgpu-work-item-id-z")]
        f4 == [f3 EXCEPT
                 !.WorkItemIDY = WorkItemIDYForEntry(isEntry, @, f3.WorkItemIDZ),
                 !.PrivateSegmentWaveByteOffset = @ \/ isEntry]
        f5 == IF f.IsAmdHsaOrMesa
              THEN [f4 EXCEPT
                      !.PrivateSegmentBuffer = TRUE,
                      !.DispatchPtr = @ \/ Has("amdgpu-dispatch-ptr"),
                      !.QueuePtr = @ \/ Has("amdgpu-queue-ptr"),
                      !.DispatchID = @ \/ Has("amdgpu-dispatch-id")]
              ELSE IF f.IsMesaGfxShader
              THEN [f4 EXCEPT !.ImplicitBufferPtr = TRUE]
              ELSE f4
        f6 == [f5 EXCEPT
                 !.KernargSegmentPtr = @ \/ Has("amdgpu-kernarg-segment-ptr")]
    IN  [f6 EXCEPT
           !.FlatScratchInit =
               @ \/ FlatScratchInitNeeded(f, isEntry, hasStackObjects)]

\* A variant of CtorRegs that leaves the placeholders in every function.
CtorRegsPlaceholders(f) == DefaultRegs

\* The fixed registers: a non-entry function gets the ABI's, an entry function
\* keeps the member defaults (the placeholders).
CtorRegs(f) ==
    IF ~isEntryFunctionCC(f.CC)
    THEN [ScratchRSrcReg |-> [cls |-> "SReg_128", idx |-> 0],
          ScratchWaveOffsetReg |-> SGPR(33),
          FrameOffsetReg |-> SGPR(5),
          StackPtrOffsetReg |-> SGPR(32)]
    ELSE DefaultRegs

\* The argument table the constructor leaves.
CtorArgInfo(f) ==
    IF ~isEntryFunctionCC(f.CC)
    THEN [EmptyArgInfo EXCEPT
            !.PrivateSegmentBuffer = createRegister(CtorRegs(f).ScratchRSrcReg),
            !.PrivateSegmentWaveByteOffset =
                createRegister(CtorRegs(f).ScratchWaveOffsetReg)]
    ELSE IF f.GFX9 /\ f.CC \in {"AMDGPU_HS", "AMDGPU_GS"}
    THEN [EmptyArgInfo EXCEPT
            !.PrivateSegmentWaveByteOffset = createRegister(SGPR(5))]
    ELSE EmptyArgInfo

\* The base members the constructor leaves: an entry function with the
\* implicit-argument pointer raises MaxKernArgAlign.
CtorBase(f, base) ==
    IF isEntryFunctionCC(f.CC) /\ "amdgpu-implicitarg-ptr" \in f.Attrs
    THEN [base EXCEPT !.MaxKernArgAlign =
                         Max(getAlignmentForImplicitArgPtr(f), @)]
    ELSE base

\* The SIMachineFunctionInfo fields right after construction for f.
Constructed(f, hasStackObjects) ==
    /\ WavesPerEU = DefaultWavesPerEU
    /\ Base = CtorBase(f, DefaultBase)
    /\ Occupancy = CtorOccupancy(WavesPerEU, Base.LDSSize)
    /\ IsEntryFunction = isEntryFunctionCC(f.CC)
    /\ Flags = CtorFlags(f, hasStackObjects)
    /\ Regs = CtorRegs(f)
    /\ ArgInfo = CtorArgInfo(f)
    /\ NumUserSGPRs = 0
    /\ NumSystemSGPRs = 0
    /\ SGPRToVGPRSpills = EmptyMap
    /\ NumVGPRSpillLanes = 0
    /\ SpillVGPRs = << >>

NoCall == [op |-> "none"]

NoCalls == [user4 |-> 0, user2 |-> 0, system |-> 0]

InitCtor ==
    /\ pc = "unconstructed"
    /\ F \in FunctionInputs
    /\ HasStackObjects \in BOOLEAN
    /\ IsEntryFunction = FALSE
    /\ Flags = InitFlags
    /\ Regs = DefaultRegs
    /\ ArgInfo = EmptyArgInfo
    /\ NumUserSGPRs = 0
    /\ NumSystemSGPRs = 0
    /\ SGPRToVGPRSpills = EmptyMap
    /\ NumVGPRSpillLanes = 0
    /\ SpillVGPRs = << >>
    /\ WaveSize = 64
    /\ Objects = << >>
    /\ HasCalls = FALSE
    /\ CSRegs = {}
    /\ UsedPhysRegs = {}
    /\ LiveIns = [b \in 1 .. NumBlocks |-> {}]
    /\ calls = NoCalls
    /\ ret = NoCall
    /\ Occupancy = 0
    /\ WavesPerEU = DefaultWavesPerEU
    /\ Base = DefaultBase
    /\ IdleYaml
    /\ IdleTM

Construct ==
    /\ pc = "unconstructed"
    /\ pc' = "live"
    /\ IsEntryFunction' = isEntryFunctionCC(F.CC)
    /\ Flags' = CtorFlags(F, HasStackObjects)
    /\ Regs' = CtorRegs(F)
    /\ ArgInfo' = CtorArgInfo(F)
    /\ ret' = [op |-> "SIMachineFunctionInfo"]
    /\ Base' = CtorBase(F, Base)
    /\ Occupancy' = CtorOccupancy(WavesPerEU, Base.LDSSize)
    /\ UNCHANGED <<F, HasStackObjects, NumUserSGPRs, NumSystemSGPRs, calls>>
    /\ UNCHANGED spillVars
    /\ UNCHANGED hostVars
    /\ UNCHANGED <<WavesPerEU, yamlVars, tmVars>>

NextCtor == Construct

SpecCtor == InitCtor /\ [][NextCtor]_vars

(***************************************************************************)
(* C10 (as claimed): whenever work-item-ID-Z is requested, entry function  *)
(* or not, work-item-ID-Y is required after construction.                  *)
(***************************************************************************)
C10_AsClaimed ==
    (pc = "live" /\ "amdgpu-work-item-id-z" \in F.Attrs) => Flags.WorkItemIDY

(***************************************************************************)
(* C10 (amended): after the construction of an ENTRY function, work-item-  *)
(* ID-Z required implies work-item-ID-Y required, whatever the attributes. *)
(***************************************************************************)
C10_EntryWorkItemZImpliesY ==
    (pc = "live" /\ IsEntryFunction /\ Flags.WorkItemIDZ) => Flags.WorkItemIDY

\* An entry function asking for Z without the Y attribute got Y all the same.
C10_Witness ==
    /\ pc = "live" /\ IsEntryFunction
    /\ "amdgpu-work-item-id-z" \in F.Attrs
    /\ "amdgpu-work-item-id-y" \notin F.Attrs
    /\ Flags.WorkItemIDZ /\ Flags.WorkItemIDY

(***************************************************************************)
(* The SGPR budget allocator: getNextUserSGPR, getNextSystemSGPR and the   *)
(* add<Input> calls.                                                       *)
(***************************************************************************)
\* What getNextUserSGPR yields when its assert fires (the process aborts).
AssertFailed == [cls |-> "assert", idx |-> 0]

\* A variant of getNextUserSGPR without the assertion.
getNextUserSGPRUnchecked == SGPR(NumUserSGPRs)

\* assert(NumSystemSGPRs == 0 && "System SGPRs must be added after user
\* SGPRs"); return AMDGPU::SGPR0 + NumUserSGPRs;
getNextUserSGPR ==
    IF NumSystemSGPRs = 0 THEN SGPR(NumUserSGPRs) ELSE AssertFailed

\* A variant of getNextSystemSGPR that forgets the system registers consumed.
getNextSystemSGPRUserOnly == SGPR(NumUserSGPRs)

\* return AMDGPU::SGPR0 + NumUserSGPRs + NumSystemSGPRs;
getNextSystemSGPR == SGPR(NumUserSGPRs + NumSystemSGPRs)

UserKinds ==
    {"PrivateSegmentBuffer", "DispatchPtr", "QueuePtr", "KernargSegmentPtr",
     "DispatchID", "FlatScratchInit", "ImplicitBufferPtr"}

SystemKinds ==
    {"WorkGroupIDX", "WorkGroupIDY", "WorkGroupIDZ", "WorkGroupInfo",
     "PrivateSegmentWaveByteOffset"}

\* The SGPR specification's own variables; nothing else moves under it.
sgprFrame ==
    <<F, HasStackObjects, IsEntryFunction, Flags, Regs, SGPRToVGPRSpills,
      NumVGPRSpillLanes, SpillVGPRs, WaveSize, Objects, HasCalls, CSRegs,
      UsedPhysRegs, LiveIns, occVars, yamlVars, tmVars>>

\* The body the seven add<UserInput> functions share: the descriptor of the
\* RC tuple starting at getNextUserSGPR() goes to the kind's slot, n registers
\* are consumed, the slot's register is returned.
AddUserSGPR(kind, RC, n) ==
    /\ pc = "live"
    /\ calls.user4 + calls.user2 < MaxUserCalls
    /\ IF getNextUserSGPR = AssertFailed
       THEN /\ pc' = "aborted"
            /\ ret' = [op |-> "add", slot |-> kind, phase |-> "user",
                       before |-> NumUserSGPRs, result |-> NoRegister]
            /\ UNCHANGED <<ArgInfo, NumUserSGPRs, calls>>
       ELSE /\ ArgInfo' = [ArgInfo EXCEPT ![kind] =
                  createRegister(getMatchingSuperReg(getNextUserSGPR, RC))]
            /\ NumUserSGPRs' = NumUserSGPRs + n
            /\ calls' = IF n = 4 THEN [calls EXCEPT !.user4 = @ + 1]
                                 ELSE [calls EXCEPT !.user2 = @ + 1]
            /\ ret' = [op |-> "add", slot |-> kind, phase |-> "user",
                       before |-> NumUserSGPRs,
                       result |-> ArgInfo'[kind].Register]
            /\ pc' = pc
    /\ UNCHANGED NumSystemSGPRs
    /\ UNCHANGED sgprFrame

addPrivateSegmentBuffer == AddUserSGPR("PrivateSegmentBuffer", "SReg_128", 4)

addDispatchPtr == AddUserSGPR("DispatchPtr", "SReg_64", 2)

addQueuePtr == AddUserSGPR("QueuePtr", "SReg_64", 2)

addKernargSegmentPtr == AddUserSGPR("KernargSegmentPtr", "SReg_64", 2)

addDispatchID == AddUserSGPR("DispatchID", "SReg_64", 2)

addFlatScratchInit == AddUserSGPR("FlatScratchInit", "SReg_64", 2)

addImplicitBufferPtr == AddUserSGPR("ImplicitBufferPtr", "SReg_64", 2)

\* A system input (work-group IDs, work-group info, the private-segment wave
\* byte offset) takes the next system SGPR, one register each.
AddSystemSGPR(kind) ==
    /\ pc = "live"
    /\ calls.system < MaxSystemCalls
    /\ ArgInfo' = [ArgInfo EXCEPT ![kind] = createRegister(getNextSystemSGPR)]
    /\ NumSystemSGPRs' = NumSystemSGPRs + 1
    /\ calls' = [calls EXCEPT !.system = @ + 1]
    /\ ret' = [op |-> "add", slot |-> kind, phase |-> "system",
               before |-> NumUserSGPRs, result |-> getNextSystemSGPR]
    /\ UNCHANGED <<pc, NumUserSGPRs>>
    /\ UNCHANGED sgprFrame

addSystemSGPR == \E kind \in SystemKinds : AddSystemSGPR(kind)

\* The functions the allocator runs on: a kernel, a GFX9 geometry shader
\* (wave byte offset pinned to SGPR5) and a callable function.
SGPRFunctions ==
    {f \in FunctionInputs :
        /\ f.CC \in {"AMDGPU_KERNEL", "AMDGPU_GS", "C"}
        /\ f.Attrs = {} /\ f.ArgEmpty /\ f.GFX9 /\ f.IsAmdHsaOrMesa
        /\ ~f.IsMesaGfxShader /\ f.HasFlatAddressSpace}

HostInit ==
    /\ WaveSize = 64
    /\ Objects = << >>
    /\ HasCalls = FALSE
    /\ CSRegs = {}
    /\ UsedPhysRegs = {}
    /\ LiveIns = [b \in 1 .. NumBlocks |-> {}]

InitSGPR ==
    /\ pc = "live"
    /\ F \in SGPRFunctions
    /\ HasStackObjects = FALSE
    /\ Constructed(F, HasStackObjects)
    /\ HostInit
    /\ IdleYaml
    /\ IdleTM
    /\ calls = NoCalls
    /\ ret = NoCall

NextSGPR ==
    \/ addPrivateSegmentBuffer
    \/ addDispatchPtr
    \/ addQueuePtr
    \/ addKernargSegmentPtr
    \/ addDispatchID
    \/ addFlatScratchInit
    \/ addImplicitBufferPtr
    \/ addSystemSGPR

SpecSGPR == InitSGPR /\ [][NextSGPR]_vars

\* The step is one of the seven user-register allocation calls.
UserAddStep ==
    \/ addPrivateSegmentBuffer
    \/ addDispatchPtr
    \/ addQueuePtr
    \/ addKernargSegmentPtr
    \/ addDispatchID
    \/ addFlatScratchInit
    \/ addImplicitBufferPtr

\* The user registers the completed add<UserInput> calls asked for.
UserRegsConsumed == 4 * calls.user4 + 2 * calls.user2

(***************************************************************************)
(* C6: getNextSystemSGPR returns the register whose index is the number of *)
(* user registers consumed plus the number of system registers consumed;   *)
(* before any system register is consumed that is the number of user       *)
(* registers consumed, and a system allocation's register is that one.     *)
(***************************************************************************)
C6_NextSystemSGPR ==
    pc = "live" =>
        /\ getNextSystemSGPR = SGPR(UserRegsConsumed + calls.system)
        /\ (calls.system = 0 => getNextSystemSGPR = SGPR(UserRegsConsumed))
        /\ (ret.op = "add" /\ ret.phase = "system" =>
               /\ ret.result = SGPR(UserRegsConsumed + calls.system - 1)
               /\ ArgInfo[ret.slot] = createRegister(ret.result))

\* Six user registers (a buffer and a pointer), then the second system
\* allocation: it got SGPR7.
C6_Witness ==
    /\ pc = "live" /\ calls.user4 = 1 /\ calls.user2 = 1 /\ calls.system = 2
    /\ ret.op = "add" /\ ret.phase = "system" /\ ret.result = SGPR(7)
    /\ getNextSystemSGPR = SGPR(8)

(***************************************************************************)
(* C7: a user-register allocation call made while NumSystemSGPRs is not 0  *)
(* fires the assertion, and NumUserSGPRs never grows once NumSystemSGPRs   *)
(* is not 0.                                                               *)
(***************************************************************************)
C7_UserBeforeSystem ==
    [][NumSystemSGPRs # 0 =>
          /\ NumUserSGPRs' = NumUserSGPRs
          /\ (UserAddStep => pc' = "aborted")]_vars

\* A user allocation was tried after a system one and the assertion fired.
C7_Witness ==
    /\ pc = "aborted" /\ NumSystemSGPRs > 0
    /\ ret.op = "add" /\ ret.phase = "user"

(***************************************************************************)
(* C8 (as claimed): an add<UserInput> call consumes 4 registers for the    *)
(* private-segment buffer and 2 for every other kind, starting at the      *)
(* NumUserSGPRs of before the call; the descriptor of that register group  *)
(* goes to the kind's slot and to no other, its register is returned, and  *)
(* the ranges of successive calls increase without overlap.                *)
(***************************************************************************)
C8_AsClaimed ==
    [][(UserAddStep /\ pc' = "live") =>
          LET kind == ret'.slot
              n == IF kind = "PrivateSegmentBuffer" THEN 4 ELSE 2
              RC == IF kind = "PrivateSegmentBuffer" THEN "SReg_128" ELSE "SReg_64"
          IN  /\ NumUserSGPRs' = NumUserSGPRs + n
              /\ ArgInfo'[kind] =
                     createRegister([cls |-> RC, idx |-> NumUserSGPRs])
              /\ \A k \in ArgKinds \ {kind} : ArgInfo'[k] = ArgInfo[k]
              /\ ret'.result = ArgInfo'[kind].Register
              /\ (ret.op = "add" /\ ret.phase = "user" =>
                     ret'.result.idx >= ret.result.idx
                         + RegClassSize(ret.result.cls))]_vars

(***************************************************************************)
(* C9 (as claimed): whatever the order of the calls, the descriptor        *)
(* addPrivateSegmentBuffer writes is the SReg_128 group whose first        *)
(* register is SGPR[NumUserSGPRs before the call], never no register.      *)
(***************************************************************************)
C9_AsClaimed ==
    (pc = "live" /\ ret.op = "add" /\ ret.slot = "PrivateSegmentBuffer") =>
        /\ ArgInfo.PrivateSegmentBuffer.IsSet
        /\ ArgInfo.PrivateSegmentBuffer.Register # NoRegister
        /\ ArgInfo.PrivateSegmentBuffer.Register =
               [cls |-> "SReg_128", idx |-> ret.before]

(***************************************************************************)
(* The spill-lane allocator, allocateSGPRSpillToVGPR(MF, FI), with the     *)
(* host state it reads and writes: the frame's stack objects, the used     *)
(* physical registers, the callee-saved list, the blocks' live-ins.        *)
(***************************************************************************)
\* The wavefront sizes a GCN subtarget can have.
WaveSizes == {16, 32, 64}

\* Byte sizes of the stack objects the host creates for SGPR spills: 1, 2, 4,
\* 15 and 16 lanes.
SpillSizes == {4, 8, 16, 60, 64}

\* TargetStackID::SGPRSpill and TargetStackID::Default
SGPRSpillStackID == 1

DefaultStackID == 0

\* The frame indices of the live SGPR spill objects.
SGPRSpillFIs ==
    {i - 1 : i \in {j \in 1 .. Len(Objects) :
                       Objects[j].StackID = SGPRSpillStackID}}

getObjectSize(FI) == Objects[FI + 1].Size

\* SIRegisterInfo::findUnusedRegister(MRI, &VGPR_32RegClass, MF): some VGPR
\* that is not used, NoRegister when every one is.  Nothing the allocator
\* does changes the answer within one call.
findUnusedRegister ==
    IF VGPR_32RegClass \ UsedPhysRegs = {}
    THEN {NoRegister}
    ELSE VGPR_32RegClass \ UsedPhysRegs

isCalleeSavedReg(Reg) == Reg \in CSRegs

MapPut(m, k, v) == [x \in DOMAIN m \cup {k} |-> IF x = k THEN v ELSE m[x]]

MapErase(m, k) == [x \in DOMAIN m \ {k} |-> m[x]]

\* A variant of VGPRIndexOf that never wraps.
VGPRIndexOfNoWrap(n, waveSize) == n

\* unsigned VGPRIndex = (NumVGPRSpillLanes % WaveSize);
VGPRIndexOf(n, waveSize) == n % waveSize

\* A variant of NeedsNewVGPR that claims a carrier for every lane.
NeedsNewVGPRAlways(VGPRIndex) == TRUE

\* if (VGPRIndex == 0): the lane opens a new carrier.
NeedsNewVGPR(VGPRIndex) == VGPRIndex = 0

\* A variant of RewindLanes that leaves the counter where the loop stopped.
RewindLanesNot(n, I) == n

\* NumVGPRSpillLanes -= I;
RewindLanes(n, I) == n - I

\* A variant of AlreadyAllocated that packs again.
AlreadyAllocatedNever(SpillLanes) == FALSE

\* if (!SpillLanes.empty()) return true;
AlreadyAllocated(SpillLanes) == SpillLanes # << >>

\* A variant of NoVGPRLeft that gives up whenever no VGPR is unused, also for
\* a lane that needs no new carrier.
NoVGPRLeftAnyLane(LaneVGPR, VGPRIndex) == LaneVGPR = NoRegister

\* if (LaneVGPR == AMDGPU::NoRegister), reached only for a lane that needs a
\* new carrier.
NoVGPRLeft(LaneVGPR, VGPRIndex) ==
    NeedsNewVGPR(VGPRIndex) /\ LaneVGPR = NoRegister

\* A variant of CSRSpillFIFor that makes the save slot in every function.
CSRSpillFIForAnyFunction(LaneVGPR, objs) ==
    IF isCalleeSavedReg(LaneVGPR) THEN Len(objs) ELSE -1

\* The callee-saved carrier's save slot: CreateSpillStackObject(4, 4) when the
\* function has calls or is not an entry function and the carrier is callee
\* saved; its frame index is the next one.  -1 is "no slot" (None).
CSRSpillFIFor(LaneVGPR, objs) ==
    IF (HasCalls \/ ~IsEntryFunction) /\ isCalleeSavedReg(LaneVGPR)
    THEN Len(objs)
    ELSE -1

\* A variant of PushCarrier that puts the new carrier first.
PushCarrierFront(Spills, Carrier) == <<Carrier>> \o Spills

\* SpillVGPRs.push_back(SGPRSpillVGPRCSR(LaneVGPR, CSRSpillFI));
PushCarrier(Spills, Carrier) == Append(Spills, Carrier)

\* A variant of addLiveIn that marks the entry block only.
addLiveInEntryOnly(Live, Reg) ==
    [b \in DOMAIN Live |-> IF b = 1 THEN Live[b] \cup {Reg} ELSE Live[b]]

\* for (MachineBasicBlock &BB : MF) BB.addLiveIn(LaneVGPR);
addLiveIn(Live, Reg) == [b \in DOMAIN Live |-> Live[b] \cup {Reg}]

\* A variant of eraseSpills that empties the slot's list and keeps its entry.
eraseSpillsLeavingEntry(Spills, FI, SpillLanes) == MapPut(Spills, FI, << >>)

\* A variant of eraseSpills that clears the whole map.
eraseSpillsOfAllSlots(Spills, FI, SpillLanes) == EmptyMap

\* A variant of eraseSpills that leaves the lanes placed before the failure.
eraseSpillsKeepingLanes(Spills, FI, SpillLanes) == MapPut(Spills, FI, SpillLanes)

\* SGPRToVGPRSpills.erase(FI): the slot's entry goes, with the lanes the
\* loop had placed in it.
eraseSpills(Spills, FI, SpillLanes) == MapErase(Spills, FI)

\* A variant of NextLane that skips a lane after every lane.
NextLaneSkipping(n) == n + 2

\* for (...; ++I, ++NumVGPRSpillLanes): the counter after one more lane.
NextLane(n) == n + 1

\* The for loop over the lanes, from lane I on.  st holds what the loop has
\* written so far: SpillLanes (the vector of FI), N (NumVGPRSpillLanes),
\* Spills (SpillVGPRs), Objs (the stack objects), Live (the live-ins).  Unused
\* is what findUnusedRegister answers in this call.
RECURSIVE SpillLoop(_, _, _, _)
SpillLoop(I, NumLanes, Unused, st) ==
    IF I >= NumLanes
    THEN [st EXCEPT !.result = TRUE]
    ELSE
      LET VGPRIndex == VGPRIndexOf(st.N, WaveSize)
      IN  IF NoVGPRLeft(Unused, VGPRIndex)
          THEN \* erase(FI); NumVGPRSpillLanes -= I; return false;
               [st EXCEPT !.erased = TRUE,
                          !.N = RewindLanes(st.N, I), !.result = FALSE]
          ELSE IF NeedsNewVGPR(VGPRIndex)
          THEN LET CSRSpillFI == CSRSpillFIFor(Unused, st.Objs)
                   objs == IF CSRSpillFI = -1
                           THEN st.Objs
                           ELSE Append(st.Objs,
                                    [Size |-> 4, Align |-> 4,
                                     StackID |-> DefaultStackID])
               IN  SpillLoop(I + 1, NumLanes, Unused,
                       [st EXCEPT
                          !.Objs = objs,
                          !.Spills = PushCarrier(@, [VGPR |-> Unused,
                                                     FI |-> CSRSpillFI]),
                          !.Live = addLiveIn(@, Unused),
                          !.SpillLanes = Append(@, [VGPR |-> Unused,
                                                    Lane |-> VGPRIndex]),
                          !.N = NextLane(@)])
          ELSE SpillLoop(I + 1, NumLanes, Unused,
                       [st EXCEPT
                          !.SpillLanes =
                              Append(@, [VGPR |-> st.Spills[Len(st.Spills)].VGPR,
                                         Lane |-> VGPRIndex]),
                          !.N = NextLane(@)])

allocateSGPRSpillToVGPR(FI) ==
    /\ pc = "live"
    /\ FI \in SGPRSpillFIs
    /\ LET SpillLanes == IF FI \in DOMAIN SGPRToVGPRSpills
                         THEN SGPRToVGPRSpills[FI] ELSE << >>
           Size == getObjectSize(FI)
       IN  IF AlreadyAllocated(SpillLanes)
           THEN /\ ret' = [op |-> "allocateSGPRSpillToVGPR", FI |-> FI,
                           result |-> TRUE, packed |-> FALSE,
                           before |-> NumVGPRSpillLanes,
                           Unused |-> NoRegister]
                /\ UNCHANGED <<pc, Objects, LiveIns>>
                /\ UNCHANGED spillVars
           ELSE IF ~(Size >= 4 /\ Size <= 64)
           THEN \* assert(Size >= 4 && Size <= 64 && "invalid sgpr spill size")
                /\ pc' = "aborted"
                /\ SGPRToVGPRSpills' = MapPut(SGPRToVGPRSpills, FI, << >>)
                /\ ret' = [op |-> "allocateSGPRSpillToVGPR", FI |-> FI,
                           result |-> FALSE, packed |-> FALSE,
                           before |-> NumVGPRSpillLanes,
                           Unused |-> NoRegister]
                /\ UNCHANGED <<NumVGPRSpillLanes, SpillVGPRs, Objects, LiveIns>>
           ELSE \E Unused \in findUnusedRegister :
                LET end == SpillLoop(0, Size \div 4, Unused,
                               [SpillLanes |-> << >>, erased |-> FALSE,
                                N |-> NumVGPRSpillLanes,
                                Spills |-> SpillVGPRs, Objs |-> Objects,
                                Live |-> LiveIns, result |-> TRUE])
                IN  /\ SGPRToVGPRSpills' =
                           IF end.erased
                           THEN eraseSpills(SGPRToVGPRSpills, FI,
                                            end.SpillLanes)
                           ELSE MapPut(SGPRToVGPRSpills, FI, end.SpillLanes)
                    /\ NumVGPRSpillLanes' = end.N
                    /\ SpillVGPRs' = end.Spills
                    /\ Objects' = end.Objs
                    /\ LiveIns' = end.Live
                    /\ ret' = [op |-> "allocateSGPRSpillToVGPR", FI |-> FI,
                               result |-> end.result, packed |-> TRUE,
                               before |-> NumVGPRSpillLanes,
                               Unused |-> Unused]
                    /\ pc' = pc
    /\ UNCHANGED <<F, HasStackObjects, WaveSize, HasCalls, CSRegs,
                   UsedPhysRegs, calls>>
    /\ UNCHANGED mfiVars
    /\ UNCHANGED <<occVars, yamlVars, tmVars>>

AllocateSGPRSpillToVGPR == \E FI \in SGPRSpillFIs : allocateSGPRSpillToVGPR(FI)

\* The host creates the stack object of one more SGPR spill.  Frame indices
\* are only names to the allocator, which is called on them in any order, so
\* the objects are created in ascending order of size.
CreateSGPRSpillObject ==
    /\ pc = "live"
    /\ Cardinality(SGPRSpillFIs) < MaxFrames
    /\ \E Size \in SpillSizes :
          /\ \A FI \in SGPRSpillFIs : getObjectSize(FI) <= Size
          /\ Objects' = Append(Objects, [Size |-> Size, Align |-> 4,
                                         StackID |-> SGPRSpillStackID])
    /\ UNCHANGED <<pc, ret, F, HasStackObjects, WaveSize, HasCalls, CSRegs,
                   UsedPhysRegs, LiveIns, calls>>
    /\ UNCHANGED mfiVars
    /\ UNCHANGED <<occVars, yamlVars, tmVars>>
    /\ UNCHANGED spillVars

\* The host emits an instruction that uses a VGPR: the register is used from
\* then on.
UsePhysReg ==
    /\ pc = "live"
    /\ \E Reg \in VGPR_32RegClass \ UsedPhysRegs :
          UsedPhysRegs' = UsedPhysRegs \cup {Reg}
    /\ UNCHANGED <<pc, ret, F, HasStackObjects, WaveSize, Objects, HasCalls,
                   CSRegs, LiveIns, calls>>
    /\ UNCHANGED mfiVars
    /\ UNCHANGED <<occVars, yamlVars, tmVars>>
    /\ UNCHANGED spillVars

\* The functions the spill allocator runs on: a kernel and a callable one.
SpillFunctions ==
    {f \in SGPRFunctions : f.CC \in {"AMDGPU_KERNEL", "C"}}

\* The callee-saved VGPRs of the calling convention: the highest register.
HighVGPRs == {VGPR(NumVGPRs - 1)}

InitSpill ==
    /\ pc = "live"
    /\ F \in SpillFunctions
    /\ HasStackObjects = FALSE
    /\ Constructed(F, HasStackObjects)
    /\ IdleYaml
    /\ IdleTM
    /\ WaveSize \in WaveSizes
    /\ Objects = << >>
    /\ HasCalls = FALSE
    /\ CSRegs = HighVGPRs
    /\ UsedPhysRegs = {}
    /\ LiveIns = [b \in 1 .. NumBlocks |-> {}]
    /\ calls = NoCalls
    /\ ret = NoCall

NextSpill ==
    \/ AllocateSGPRSpillToVGPR
    \/ CreateSGPRSpillObject
    \/ UsePhysReg

SpecSpill == InitSpill /\ [][NextSpill]_vars

\* The last call was allocateSGPRSpillToVGPR and went through the lane loop
\* (the slot had no lanes and its size passed the assertion).
Packed == pc = "live" /\ ret.op = "allocateSGPRSpillToVGPR" /\ ret.packed

\* The lanes of the slot the last call was about, and how many it asked for.
RetLanes == SGPRToVGPRSpills[ret.FI]

RetNumLanes == getObjectSize(ret.FI) \div 4

(***************************************************************************)
(* C1: when allocateSGPRSpillToVGPR(FI) fails, also after placing some of  *)
(* the value's lanes, FI has no entry in the spill map and                 *)
(* NumVGPRSpillLanes is what it was before the call.                       *)
(***************************************************************************)
C1_AllOrNothingRollback ==
    (Packed /\ ~ret.result) =>
        /\ ret.FI \notin DOMAIN SGPRToVGPRSpills
        /\ NumVGPRSpillLanes = ret.before

\* A value of several lanes failed on the carrier it had to open after its
\* first lanes were placed on the current one.
C1_Witness ==
    /\ Packed /\ ~ret.result
    /\ (ret.before % WaveSize) # 0
    /\ (ret.before % WaveSize) + RetNumLanes > WaveSize

(***************************************************************************)
(* C2: a successful call on a slot of 4*N bytes that had no lanes leaves   *)
(* exactly N lanes for it, lane i (from 0) at index (prior + i) mod        *)
(* WaveSize, every index in 0 .. WaveSize-1, and the counter N higher.     *)
(***************************************************************************)
C2_LanePacking ==
    (Packed /\ ret.result) =>
        /\ Len(RetLanes) = RetNumLanes
        /\ 4 * RetNumLanes = getObjectSize(ret.FI)
        /\ \A i \in 1 .. RetNumLanes :
              /\ RetLanes[i].Lane = (ret.before + i - 1) % WaveSize
              /\ RetLanes[i].Lane \in 0 .. WaveSize - 1
        /\ NumVGPRSpillLanes = ret.before + RetNumLanes

\* A value packed across the end of a carrier: its lanes wrap to index 0.
C2_Witness ==
    /\ Packed /\ ret.result
    /\ (ret.before % WaveSize) # 0
    /\ (ret.before % WaveSize) + RetNumLanes > WaveSize
    /\ RetLanes[RetNumLanes].Lane < RetLanes[1].Lane

C4_Idempotent ==
    [][\A FI \in DOMAIN SGPRToVGPRSpills :
          (allocateSGPRSpillToVGPR(FI) /\ SGPRToVGPRSpills[FI] # << >>) =>
              /\ ret'.result = TRUE
              /\ pc' = "live"
              /\ SGPRToVGPRSpills' = SGPRToVGPRSpills
              /\ NumVGPRSpillLanes' = NumVGPRSpillLanes
              /\ SpillVGPRs' = SpillVGPRs
              /\ Objects' = Objects
              /\ LiveIns' = LiveIns]_vars

\* The packer was called again on a packed slot and returned true at once.
C4_Witness ==
    /\ pc = "live" /\ ret.op = "allocateSGPRSpillToVGPR"
    /\ ~ret.packed /\ ret.result
    /\ ret.FI \in DOMAIN SGPRToVGPRSpills
    /\ Len(SGPRToVGPRSpills[ret.FI]) = RetNumLanes

(***************************************************************************)
(* C5: a call that packs fails if and only if one of the value's lanes has *)
(* index 0 and no VGPR is unused at that moment; a value whose lanes all   *)
(* fit the current carrier succeeds also when no VGPR is unused.           *)
(***************************************************************************)
C5_FailsIffNoCarrier ==
    [][\A FI \in SGPRSpillFIs :
          (allocateSGPRSpillToVGPR(FI) /\ ret'.packed) =>
              LET NumLanes == getObjectSize(FI) \div 4
                  needsCarrier ==
                      \E i \in 0 .. NumLanes - 1 :
                          (NumVGPRSpillLanes + i) % WaveSize = 0
                  noneUnused == VGPR_32RegClass \subseteq UsedPhysRegs
              IN  (ret'.result = FALSE) <=> (needsCarrier /\ noneUnused)]_vars

\* Every VGPR was used, the value fitted the current carrier, and it packed.
C5_Witness ==
    /\ Packed /\ ret.result
    /\ ret.Unused = NoRegister
    /\ (ret.before % WaveSize) # 0
    /\ (ret.before % WaveSize) + RetNumLanes <= WaveSize

(***************************************************************************)
(* The occupancy limiter: construction, the host changing the local-memory *)
(* size, and limitOccupancy(MF).                                           *)
(***************************************************************************)
\* limitOccupancy(MF) on the live function info.
LimitOccupancy ==
    /\ pc = "live"
    /\ Occupancy' = limitOccupancyMF(Occupancy, WavesPerEU, Base.LDSSize)
    /\ ret' = [op |-> "limitOccupancy", before |-> Occupancy,
               LDSSize |-> Base.LDSSize,
               again |-> (ret.op = "limitOccupancy"
                              /\ ret.LDSSize = Base.LDSSize)]
    /\ UNCHANGED <<pc, F, HasStackObjects, calls, WavesPerEU, Base>>
    /\ UNCHANGED mfiVars
    /\ UNCHANGED spillVars
    /\ UNCHANGED hostVars
    /\ UNCHANGED <<yamlVars, tmVars>>

\* The host gives the function another local-memory size (LDS globals are
\* allocated, or the base fields are reloaded).
SetLDSSize ==
    /\ pc = "live"
    /\ \E n \in (0 .. MaxLDS) \ {Base.LDSSize} :
          Base' = [Base EXCEPT !.LDSSize = n]
    /\ UNCHANGED <<pc, ret, F, HasStackObjects, calls, WavesPerEU, Occupancy>>
    /\ UNCHANGED mfiVars
    /\ UNCHANGED spillVars
    /\ UNCHANGED hostVars
    /\ UNCHANGED <<yamlVars, tmVars>>

\* The functions the limiter runs on.
OccFunctions == {f \in SGPRFunctions : f.CC \in {"AMDGPU_KERNEL", "C"}}

InitOcc ==
    /\ pc = "unconstructed"
    /\ F \in OccFunctions
    /\ HasStackObjects = FALSE
    /\ IsEntryFunction = FALSE
    /\ Flags = InitFlags
    /\ Regs = DefaultRegs
    /\ ArgInfo = EmptyArgInfo
    /\ NumUserSGPRs = 0
    /\ NumSystemSGPRs = 0
    /\ SGPRToVGPRSpills = EmptyMap
    /\ NumVGPRSpillLanes = 0
    /\ SpillVGPRs = << >>
    /\ HostInit
    /\ calls = NoCalls
    /\ ret = NoCall
    /\ Occupancy = 0
    /\ WavesPerEU \in WavesPerEUValues
    /\ Base = DefaultBase
    /\ IdleYaml
    /\ IdleTM

NextOcc ==
    \/ Construct
    \/ LimitOccupancy
    \/ SetLDSSize

SpecOcc == InitOcc /\ [][NextOcc]_vars

\* The occupancy a function info constructed for these waves per execution
\* unit has after limitOccupancy(MF) at local-memory size n.
OccupancyAt(n) ==
    limitOccupancyMF(CtorOccupancy(WavesPerEU, DefaultBase.LDSSize),
                     WavesPerEU, n)

(***************************************************************************)
(* C11: after construction and after any number of limitOccupancy calls at *)
(* any local-memory size, Occupancy is at least 1 and at most the target's *)
(* maximum waves per execution unit.                                       *)
(***************************************************************************)
C11_OccupancyInRange ==
    pc = "live" => (Occupancy >= 1 /\ Occupancy <= MaxWaves)

\* limitOccupancy took the occupancy down to 1, below the requested maximum.
C11_Witness ==
    /\ pc = "live" /\ ret.op = "limitOccupancy"
    /\ Occupancy = 1 /\ ret.before > 1 /\ WavesPerEU.second > 1

(***************************************************************************)
(* C12: limitOccupancy(MF) leaves the minimum of the occupancy before the  *)
(* call, the maximum waves per execution unit and the occupancy the local- *)
(* memory size allows; it never raises the occupancy, and a second call at *)
(* the same local-memory size changes nothing.                             *)
(***************************************************************************)
C12_LimitOnlyNarrows ==
    [][LimitOccupancy =>
          /\ Occupancy' = Min(Occupancy,
                              Min(getMaxWavesPerEU(WavesPerEU),
                                  getOccupancyWithLocalMemSize(Base.LDSSize)))
          /\ Occupancy' <= Occupancy
          /\ (ret'.again => Occupancy' = Occupancy)]_vars

\* The second of two calls at one local-memory size, after the first had
\* narrowed the occupancy below the requested maximum.
C12_Witness ==
    /\ pc = "live" /\ ret.op = "limitOccupancy" /\ ret.again
    /\ ret.before = Occupancy
    /\ Occupancy < getMaxWavesPerEU(WavesPerEU)
    /\ Occupancy = getOccupancyWithLocalMemSize(Base.LDSSize)

(***************************************************************************)
(* C13: for local-memory sizes a <= b, same target and attributes, the     *)
(* occupancy computed for b is at most the occupancy computed for a; the   *)
(* occupancy limitOccupancy leaves at size b is at most the one computed   *)
(* for any a <= b.                                                         *)
(***************************************************************************)
C13_OccupancyMonotone ==
    pc = "live" =>
        /\ \A a \in 0 .. MaxLDS : \A b \in a .. MaxLDS :
              OccupancyAt(b) <= OccupancyAt(a)
        /\ (ret.op = "limitOccupancy" =>
               \A a \in 0 .. ret.LDSSize : Occupancy <= OccupancyAt(a))

\* The first limitOccupancy after construction, at a size where the occupancy
\* is strictly below the one of a smaller size.
C13_Witness ==
    /\ pc = "live" /\ ret.op = "limitOccupancy"
    /\ ret.LDSSize > 0
    /\ ret.before = CtorOccupancy(WavesPerEU, DefaultBase.LDSSize)
    /\ Occupancy = OccupancyAt(ret.LDSSize)
    /\ \E a \in 1 .. ret.LDSSize - 1 : Occupancy < OccupancyAt(a)

(***************************************************************************)
(* The snapshot bridge: yaml::SIMachineFunctionInfo built from the live    *)
(* state (convertArgumentInfo and the yaml constructor) and read back by   *)
(* GCNTargetMachine::parseMachineFunctionInfo.                             *)
(***************************************************************************)
\* Optional<unsigned> Mask of yaml::SIArgument.
NoMask == [has |-> FALSE, val |-> 0]

SomeMask(m) == [has |-> TRUE, val |-> m]

\* Optional<yaml::SIArgument>: None.
NoArgument ==
    [has |-> FALSE, IsRegister |-> FALSE, RegisterName |-> << >>,
     StackOffset |-> 0, Mask |-> NoMask]

\* The lambda convertArg: None for an unset descriptor; else the register's
\* name or the stack offset, and the mask when the descriptor is masked.
convertArg(Arg) ==
    IF ~Arg.IsSet
    THEN NoArgument
    ELSE [has |-> TRUE,
          IsRegister |-> ~Arg.IsStack,
          RegisterName |-> IF ~Arg.IsStack THEN printReg(Arg.Register)
                                           ELSE << >>,
          StackOffset |-> IF Arg.IsStack THEN Arg.StackOffset ELSE 0,
          Mask |-> IF isMasked(Arg) THEN SomeMask(Arg.Mask) ELSE NoMask]

\* A variant of convertArgumentInfo that gives a block in every case.
convertArgumentInfoAlways(argInfo) ==
    [has |-> TRUE,
     args |-> [k \in ArgKinds |-> convertArg(argInfo[k])]]

\* convertArgumentInfo: the argument block, None when no descriptor is set.
convertArgumentInfo(argInfo) ==
    [has |-> \E k \in ArgKinds : argInfo[k].IsSet,
     args |-> [k \in ArgKinds |-> convertArg(argInfo[k])]]

\* yaml::SIMachineFunctionInfo::SIMachineFunctionInfo(MFI, TRI)
YamlOf(base, isEntry, regs, argInfo) ==
    [present |-> TRUE,
     ExplicitKernArgSize |-> base.ExplicitKernArgSize,
     MaxKernArgAlign |-> base.MaxKernArgAlign,
     LDSSize |-> base.LDSSize,
     IsEntryFunction |-> isEntry,
     NoSignedZerosFPMath |-> base.NoSignedZerosFPMath,
     MemoryBound |-> base.MemoryBound,
     WaveLimiter |-> base.WaveLimiter,
     ScratchRSrcReg |-> printReg(regs.ScratchRSrcReg),
     ScratchWaveOffsetReg |-> printReg(regs.ScratchWaveOffsetReg),
     FrameOffsetReg |-> printReg(regs.FrameOffsetReg),
     StackPtrOffsetReg |-> printReg(regs.StackPtrOffsetReg),
     ArgInfo |-> convertArgumentInfo(argInfo)]

\* SIMachineFunctionInfo::initializeBaseYamlFields: the base members.
initializeBaseYamlFields(yaml) ==
    [ExplicitKernArgSize |-> yaml.ExplicitKernArgSize,
     MaxKernArgAlign |-> yaml.MaxKernArgAlign,
     LDSSize |-> yaml.LDSSize,
     NoSignedZerosFPMath |-> yaml.NoSignedZerosFPMath,
     MemoryBound |-> yaml.MemoryBound,
     WaveLimiter |-> yaml.WaveLimiter]

\* A variant of FixedRegFields that takes the fields from the last to the
\* first.
FixedRegFieldsReversed ==
    <<"StackPtrOffsetReg", "FrameOffsetReg", "ScratchWaveOffsetReg",
      "ScratchRSrcReg">>

\* The four fixed-register fields in the order parseMachineFunctionInfo
\* takes them, the placeholder each may keep and the class it must be in
\* otherwise.
FixedRegFields ==
    <<"ScratchRSrcReg", "ScratchWaveOffsetReg", "FrameOffsetReg",
      "StackPtrOffsetReg">>

FixedRegPlaceholder(f) ==
    CASE f = "ScratchRSrcReg" -> PRIVATE_RSRC_REG
      [] f = "ScratchWaveOffsetReg" -> SCRATCH_WAVE_OFFSET_REG
      [] f = "FrameOffsetReg" -> FP_REG
      [] f = "StackPtrOffsetReg" -> SP_REG

\* A variant of FixedRegClass that checks the scratch resource as a scalar.
FixedRegClassAllScalar(f) == "SGPR_32"

FixedRegClass(f) == IF f = "ScratchRSrcReg" THEN "SReg_128" ELSE "SGPR_32"

\* The test of one fixed register: MFI->f != placeholder && !RC.contains(MFI->f)
\* diagnoses; this is its negation.
FixedRegAccepted(f, Reg) ==
    Reg = FixedRegPlaceholder(f) \/ RegClassContains(FixedRegClass(f), Reg)

\* The diagnostics: the lambda diagnoseRegisterClass and the parser's own.
diagnoseRegisterClass(field) ==
    [Error |-> "incorrect register class for field", SourceRange |-> field]

diagnoseUnknownRegister(field) ==
    [Error |-> "unknown register name", SourceRange |-> field]

\* The four parseRegister calls, short-circuited: from field i on.
RECURSIVE parseRegisters(_, _, _)
parseRegisters(i, yaml, regs) ==
    IF i > Len(FixedRegFields)
    THEN [error |-> FALSE, Regs |-> regs, Diag |-> NoDiag]
    ELSE LET f == FixedRegFields[i]
             r == parseNamedRegisterReference(yaml[f])
         IN  IF r.error
             THEN [error |-> TRUE, Regs |-> regs,
                   Diag |-> diagnoseUnknownRegister(f)]
             ELSE parseRegisters(i + 1, yaml, [regs EXCEPT ![f] = r.Reg])

\* The four register-class tests, in order: the first field that fails, 0
\* when none does.
RECURSIVE firstRejectedReg(_, _)
firstRejectedReg(i, regs) ==
    IF i > Len(FixedRegFields)
    THEN 0
    ELSE IF ~FixedRegAccepted(FixedRegFields[i], regs[FixedRegFields[i]])
    THEN i
    ELSE firstRejectedReg(i + 1, regs)

\* The argument kinds in the order of the parseAndCheckArgument calls.
ArgOrder ==
    <<"PrivateSegmentBuffer", "DispatchPtr", "QueuePtr", "KernargSegmentPtr",
      "DispatchID", "FlatScratchInit", "PrivateSegmentSize", "WorkGroupIDX",
      "WorkGroupIDY", "WorkGroupIDZ", "WorkGroupInfo",
      "PrivateSegmentWaveByteOffset", "ImplicitArgPtr", "ImplicitBufferPtr",
      "WorkItemIDX", "WorkItemIDY", "WorkItemIDZ">>

\* A variant of ArgRegClass that takes the work-item IDs for scalars.
ArgRegClassNoVector(kind) ==
    CASE kind = "PrivateSegmentBuffer" -> "SReg_128"
      [] kind \in {"DispatchPtr", "QueuePtr", "KernargSegmentPtr", "DispatchID",
                   "FlatScratchInit", "ImplicitArgPtr", "ImplicitBufferPtr"}
             -> "SReg_64"
      [] OTHER -> "SGPR_32"

\* The register class each parseAndCheckArgument call is given.
ArgRegClass(kind) ==
    CASE kind = "PrivateSegmentBuffer" -> "SReg_128"
      [] kind \in {"DispatchPtr", "QueuePtr", "KernargSegmentPtr", "DispatchID",
                   "FlatScratchInit", "ImplicitArgPtr", "ImplicitBufferPtr"}
             -> "SReg_64"
      [] kind \in {"PrivateSegmentSize", "WorkGroupIDX", "WorkGroupIDY",
                   "WorkGroupIDZ", "WorkGroupInfo",
                   "PrivateSegmentWaveByteOffset"}
             -> "SGPR_32"
      [] kind \in {"WorkItemIDX", "WorkItemIDY", "WorkItemIDZ"} -> "VGPR_32"

\* if (A->Mask) Arg = ArgDescriptor::createArg(Arg, A->Mask.getValue());
applyMask(Arg, Mask) == IF Mask.has THEN createArg(Arg, Mask.val) ELSE Arg

\* A variant of SkippedArgument that clears the slot.
SkippedArgumentCleared(Arg) == Absent

\* if (!A) return false: the slot of an entry that is not present is left
\* as it is.
SkippedArgument(Arg) == Arg

\* The lambda parseAndCheckArgument(A, RC, Arg) for the slot of kind: whether
\* it failed, the descriptor it leaves in the slot, the diagnostic.
parseAndCheckArgument(A, kind, Arg) ==
    IF ~A.has
    THEN [error |-> FALSE, Arg |-> SkippedArgument(Arg), Diag |-> NoDiag]
    ELSE IF A.IsRegister
    THEN LET r == parseNamedRegisterReference(A.RegisterName)
         IN  IF r.error
             THEN [error |-> TRUE, Arg |-> Arg,
                   Diag |-> diagnoseUnknownRegister(kind)]
             ELSE IF ~RegClassContains(ArgRegClass(kind), r.Reg)
             THEN [error |-> TRUE, Arg |-> Arg,
                   Diag |-> diagnoseRegisterClass(kind)]
             ELSE [error |-> FALSE,
                   Arg |-> applyMask(createRegister(r.Reg), A.Mask),
                   Diag |-> NoDiag]
    ELSE [error |-> FALSE,
          Arg |-> applyMask(createStack(A.StackOffset), A.Mask),
          Diag |-> NoDiag]

\* The chain of parseAndCheckArgument calls, short-circuited: from kind i on.
RECURSIVE parseArguments(_, _, _)
parseArguments(i, yamlArgs, argInfo) ==
    IF i > Len(ArgOrder)
    THEN [error |-> FALSE, ArgInfo |-> argInfo, Diag |-> NoDiag]
    ELSE LET kind == ArgOrder[i]
             r == parseAndCheckArgument(yamlArgs[kind], kind, argInfo[kind])
         IN  IF r.error
             THEN [error |-> TRUE, ArgInfo |-> argInfo, Diag |-> r.Diag]
             ELSE parseArguments(i + 1, yamlArgs,
                                 [argInfo EXCEPT ![kind] = r.Arg])

\* A variant of ArgInfoOnError that puts the argument table back.
ArgInfoOnErrorRestored(Before, Written) == Before

\* The argument table after a chain that failed: Arg is a reference to the
\* slot of MFI->ArgInfo, so what the earlier calls wrote stays.
ArgInfoOnError(Before, Written) == Written

\* GCNTargetMachine::parseMachineFunctionInfo(YamlMFI, PFS, Error,
\* SourceRange) on the function info mfi: the value returned (true is an
\* error), the members it leaves and the diagnostic.
parseMachineFunctionInfo(yaml, mfi) ==
    LET base == initializeBaseYamlFields(yaml)
        parsed == parseRegisters(1, yaml, mfi.Regs)
        rejected == firstRejectedReg(1, parsed.Regs)
        args == parseArguments(1, yaml.ArgInfo.args, mfi.ArgInfo)
        common == [Base |-> base, IsEntryFunction |-> yaml.IsEntryFunction,
                   Regs |-> parsed.Regs, ArgInfo |-> mfi.ArgInfo,
                   result |-> TRUE, Diag |-> parsed.Diag]
    IN  IF parsed.error
        THEN common
        ELSE IF rejected # 0
        THEN [common EXCEPT
                !.Diag = diagnoseRegisterClass(FixedRegFields[rejected])]
        ELSE IF yaml.ArgInfo.has /\ args.error
        THEN [common EXCEPT
                !.ArgInfo = ArgInfoOnError(mfi.ArgInfo, args.ArgInfo),
                !.Diag = args.Diag]
        ELSE IF yaml.ArgInfo.has
        THEN [common EXCEPT !.ArgInfo = args.ArgInfo, !.result = FALSE]
        ELSE [common EXCEPT !.result = FALSE]

(***************************************************************************)
(* The snapshot specification: a function info is populated (user inputs   *)
(* are added, the host lowers a work-item ID and the base members), the    *)
(* tool writes its snapshot and ends; the snapshot may be rewritten by     *)
(* hand; the next tool run constructs the function info anew and parses    *)
(* the snapshot into it.  pc goes "live", "saved", "parsed".               *)
(***************************************************************************)
\* The base members once the host has lowered kernel arguments, allocated
\* local memory and run its analyses.
LoweredBase ==
    [ExplicitKernArgSize |-> 8, MaxKernArgAlign |-> 8, LDSSize |-> 1,
     NoSignedZerosFPMath |-> TRUE, MemoryBound |-> TRUE, WaveLimiter |-> TRUE]

\* The descriptors argument lowering gives the work-item ID X: a VGPR or a
\* stack slot, whole or masked to the packed ID's ten bits.
LoweredWorkItemIDs ==
    {createRegister(VGPR(0)), createArg(createRegister(VGPR(0)), 1023),
     createStack(4), createArg(createStack(4), 1023)}

\* What the snapshot specification leaves alone in every step.
yamlFrame ==
    <<F, HasStackObjects, WavesPerEU, SGPRToVGPRSpills, NumVGPRSpillLanes,
      SpillVGPRs, hostVars, tmVars>>

SetBase ==
    /\ pc = "live"
    /\ Base # LoweredBase
    /\ Base' = LoweredBase
    /\ UNCHANGED <<pc, ret, calls, Occupancy, yamlVars>>
    /\ UNCHANGED mfiVars
    /\ UNCHANGED yamlFrame

SetWorkItemID ==
    /\ pc = "live"
    /\ ~ArgInfo.WorkItemIDX.IsSet
    /\ \E d \in LoweredWorkItemIDs :
          ArgInfo' = [ArgInfo EXCEPT !.WorkItemIDX = d]
    /\ UNCHANGED <<pc, ret, calls, occVars, yamlVars>>
    /\ UNCHANGED <<IsEntryFunction, Flags, Regs, NumUserSGPRs, NumSystemSGPRs>>
    /\ UNCHANGED yamlFrame

\* The function info as the snapshot constructor reads it.
CurrentYaml == YamlOf(Base, IsEntryFunction, Regs, ArgInfo)

\* convertFunctionInfoToYAML: the snapshot of the live function info.
Serialize ==
    /\ pc = "live"
    /\ pc' = "saved"
    /\ YamlMFI' = CurrentYaml
    /\ ret' = [op |-> "serialize"]
    /\ UNCHANGED <<calls, occVars, Diag>>
    /\ UNCHANGED mfiVars
    /\ UNCHANGED yamlFrame

\* The register names a hand-written snapshot gives a fixed-register field:
\* one of each class, the placeholders, $noreg and a name of no register.
WrittenRegNames(f) ==
    IF f = "ScratchRSrcReg"
    THEN {printReg(r) : r \in {[cls |-> "SReg_128", idx |-> 4],
                               PRIVATE_RSRC_REG, FP_REG, SGPR(0),
                               [cls |-> "SReg_64", idx |-> 0], VGPR(0),
                               NoRegister}} \cup {<<"$bogus">>}
    ELSE IF f = "ScratchWaveOffsetReg"
    THEN {printReg(SGPR(4)), printReg(VGPR(0)), <<"$bogus">>}
    ELSE {printReg(SGPR(4)), printReg(VGPR(0))}

\* Snapshots are rewritten only where the function info is as constructed
\* but for the work-item ID and the base members.
Rewritable ==
    /\ pc = "saved"
    /\ calls = NoCalls

\* One fixed-register field is rewritten; after the scratch resource one
\* more field may be.
WriteFixedReg ==
    /\ Rewritable
    /\ \/ ret.op = "serialize"
       \/ ret.op = "writeFixedReg" /\ ret.field = "ScratchRSrcReg"
    /\ \E i \in 1 .. Len(FixedRegFields) :
          \E n \in WrittenRegNames(FixedRegFields[i]) :
              /\ ret.op = "writeFixedReg" => FixedRegFields[i] # ret.field
              /\ YamlMFI' = [YamlMFI EXCEPT ![FixedRegFields[i]] = n]
              /\ ret' = [op |-> "writeFixedReg", field |-> FixedRegFields[i]]
    /\ UNCHANGED <<pc, calls, occVars, Diag>>
    /\ UNCHANGED mfiVars
    /\ UNCHANGED yamlFrame

\* The argument entries a hand-written snapshot holds: a register of each
\* class, $noreg, a name of no register, or a stack offset, with or without
\* a mask.
WrittenArguments ==
    LET names == {printReg(r) : r \in {[cls |-> "SReg_128", idx |-> 4],
                                       [cls |-> "SReg_64", idx |-> 4],
                                       SGPR(4), VGPR(0), NoRegister}}
                     \cup {<<"$bogus">>}
        masks == {NoMask, SomeMask(1023)}
    IN  {[has |-> TRUE, IsRegister |-> TRUE, RegisterName |-> n,
          StackOffset |-> 0, Mask |-> m] : n \in names, m \in masks}
        \cup {[has |-> TRUE, IsRegister |-> FALSE, RegisterName |-> << >>,
               StackOffset |-> 4, Mask |-> m] : m \in masks}

WriteArgument ==
    /\ Rewritable
    /\ ret.op = "serialize"
    /\ \E kind \in ArgKinds, a \in WrittenArguments :
          /\ YamlMFI' =
                [YamlMFI EXCEPT !.ArgInfo =
                    [has |-> TRUE, args |-> [@.args EXCEPT ![kind] = a]]]
          /\ ret' = [op |-> "writeArgument", slot |-> kind]
    /\ UNCHANGED <<pc, calls, occVars, Diag>>
    /\ UNCHANGED mfiVars
    /\ UNCHANGED yamlFrame

\* An entry of the argument block, or the whole block, is deleted by hand.
DeleteArgument ==
    /\ Rewritable
    /\ ret.op = "serialize"
    /\ YamlMFI.ArgInfo.has
    /\ \/ /\ YamlMFI' = [YamlMFI EXCEPT !.ArgInfo =
                              [has |-> FALSE,
                               args |-> [k \in ArgKinds |-> NoArgument]]]
          /\ ret' = [op |-> "deleteArgument", slot |-> "all"]
       \/ \E kind \in ArgKinds :
             /\ YamlMFI.ArgInfo.args[kind].has
             /\ \E other \in ArgKinds \ {kind} :
                    YamlMFI.ArgInfo.args[other].has
             /\ YamlMFI' = [YamlMFI EXCEPT
                               !.ArgInfo.args[kind] = NoArgument]
             /\ ret' = [op |-> "deleteArgument", slot |-> kind]
    /\ UNCHANGED <<pc, calls, occVars, Diag>>
    /\ UNCHANGED mfiVars
    /\ UNCHANGED yamlFrame

\* The next tool run: the function info is constructed for F, then
\* parseMachineFunctionInfo reads the snapshot into it.  ret keeps what the
\* function info was when the snapshot was taken and how the snapshot came
\* to be.
Parse ==
    /\ pc = "saved"
    /\ pc' = "parsed"
    /\ LET r == parseMachineFunctionInfo(YamlMFI,
                    [Regs |-> CtorRegs(F), ArgInfo |-> CtorArgInfo(F)])
       IN  /\ Base' = r.Base
           /\ IsEntryFunction' = r.IsEntryFunction
           /\ Regs' = r.Regs
           /\ ArgInfo' = r.ArgInfo
           /\ Diag' = r.Diag
           /\ ret' = [op |-> "parseMachineFunctionInfo", result |-> r.result,
                      source |-> ret.op,
                      before |-> [Base |-> Base,
                                  IsEntryFunction |-> IsEntryFunction,
                                  Regs |-> Regs, ArgInfo |-> ArgInfo]]
    /\ Flags' = CtorFlags(F, HasStackObjects)
    /\ NumUserSGPRs' = 0
    /\ NumSystemSGPRs' = 0
    /\ Occupancy' = CtorOccupancy(WavesPerEU, DefaultBase.LDSSize)
    /\ calls' = NoCalls
    /\ UNCHANGED YamlMFI
    /\ UNCHANGED yamlFrame

\* The functions whose snapshots are taken: a kernel and a callable function.
YamlFunctions == OccFunctions

InitYaml ==
    /\ pc = "live"
    /\ F \in YamlFunctions
    /\ HasStackObjects = FALSE
    /\ Constructed(F, HasStackObjects)
    /\ HostInit
    /\ IdleYaml
    /\ IdleTM
    /\ calls = NoCalls
    /\ ret = NoCall

NextYaml ==
    \/ addPrivateSegmentBuffer
    \/ addDispatchPtr
    \/ addQueuePtr
    \/ SetBase
    \/ SetWorkItemID
    \/ Serialize
    \/ WriteFixedReg
    \/ WriteArgument
    \/ DeleteArgument
    \/ Parse

SpecYaml == InitYaml /\ [][NextYaml]_vars

(***************************************************************************)
(* Claims about the snapshot bridge.                                       *)
(***************************************************************************)
\* The function info the last parse left equals the one the snapshot was
\* taken of: the seven summary fields, the four fixed registers and every
\* slot that was set.
Reproduced ==
    /\ ret.result = FALSE
    /\ Base = ret.before.Base
    /\ IsEntryFunction = ret.before.IsEntryFunction
    /\ Regs = ret.before.Regs
    /\ \A k \in ArgKinds :
          ret.before.ArgInfo[k].IsSet => ArgInfo[k] = ret.before.ArgInfo[k]

\* C14 as stated: parsing the snapshot that serializing a populated function
\* info produced reproduces the seven summary fields, the four fixed
\* registers and every present argument slot.
C14_AsClaimed ==
    (ret.op = "parseMachineFunctionInfo" /\ ret.source = "serialize")
        => Reproduced

\* The last step parsed a snapshot.
Parsed == ret.op = "parseMachineFunctionInfo"

\* The register a snapshot's name stands for; NoRegister for $noreg and for
\* a name of no register.
Named(Name) == parseNamedRegisterReference(Name).Reg

Resolves(Name) == ~parseNamedRegisterReference(Name).error

\* C15 as stated: a snapshot whose scratch-resource base names any register
\* outside the 128-bit scalar class is refused (true is returned) with a
\* diagnostic and the source range of that field.
C15_AsClaimed ==
    (/\ Parsed
     /\ Resolves(YamlMFI.ScratchRSrcReg)
     /\ Named(YamlMFI.ScratchRSrcReg).cls # "SReg_128")
        => /\ ret.result = TRUE
           /\ Diag.Error # "none"
           /\ Diag.SourceRange = "ScratchRSrcReg"

\* C15, amended: a snapshot whose scratch-resource base names a register
\* other than the placeholder PRIVATE_RSRC_REG outside the 128-bit scalar
\* class is refused with a diagnostic; when the names of all four fixed
\* registers resolve, the diagnostic is "incorrect register class for field"
\* and the source range is that of the scratch-resource field.
C15_ScratchRSrcRegClass ==
    (/\ Parsed
     /\ Resolves(YamlMFI.ScratchRSrcReg)
     /\ Named(YamlMFI.ScratchRSrcReg).cls # "SReg_128"
     /\ Named(YamlMFI.ScratchRSrcReg) # PRIVATE_RSRC_REG)
        => /\ ret.result = TRUE
           /\ Diag.Error # "none"
           /\ (\A i \in 1 .. Len(FixedRegFields) :
                  Resolves(YamlMFI[FixedRegFields[i]]))
                 => /\ Diag.Error = "incorrect register class for field"
                    /\ Diag.SourceRange = "ScratchRSrcReg"

\* A snapshot naming a 32-bit scalar as the scratch resource was parsed and
\* refused at that field.
C15_Witness ==
    /\ Parsed
    /\ YamlMFI.ScratchRSrcReg = printReg(SGPR(0))
    /\ ret.result = TRUE
    /\ Diag = diagnoseRegisterClass("ScratchRSrcReg")

\* C16: every register-valued argument entry is held against the class of
\* its kind (128-bit scalar for the private segment buffer, 64-bit scalar
\* for the pointer and ID kinds, 32-bit scalar for the per-wave scalars,
\* 32-bit vector for the work-item IDs); an entry of another class makes the
\* parse return true, and when the parse succeeds every entry's register or
\* stack offset is in its slot, with the entry's mask if it has one.
C16_ArgumentClasses ==
    LET Required(k) ==
            CASE k = "PrivateSegmentBuffer" -> "SReg_128"
              [] k \in {"DispatchPtr", "QueuePtr", "KernargSegmentPtr",
                        "DispatchID", "FlatScratchInit", "ImplicitArgPtr",
                        "ImplicitBufferPtr"} -> "SReg_64"
              [] k \in {"PrivateSegmentSize", "WorkGroupIDX", "WorkGroupIDY",
                        "WorkGroupIDZ", "WorkGroupInfo",
                        "PrivateSegmentWaveByteOffset"} -> "SGPR_32"
              [] k \in {"WorkItemIDX", "WorkItemIDY", "WorkItemIDZ"}
                    -> "VGPR_32"
        Entry(k) == YamlMFI.ArgInfo.args[k]
        Present(k) == YamlMFI.ArgInfo.has /\ Entry(k).has
    IN  Parsed =>
          \A k \in ArgKinds :
             /\ (/\ Present(k)
                 /\ Entry(k).IsRegister
                 /\ Resolves(Entry(k).RegisterName)
                 /\ Named(Entry(k).RegisterName).cls # Required(k))
                    => ret.result = TRUE
             /\ (ret.result = FALSE /\ Present(k))
                    => /\ ArgInfo[k].IsSet
                       /\ ArgInfo[k].IsStack = ~Entry(k).IsRegister
                       /\ Entry(k).IsRegister =>
                             /\ ArgInfo[k].Register = Named(Entry(k).RegisterName)
                             /\ ArgInfo[k].Register.cls = Required(k)
                       /\ ~Entry(k).IsRegister =>
                             ArgInfo[k].StackOffset = Entry(k).StackOffset
                       /\ Entry(k).Mask.has =>
                             ArgInfo[k].Mask = Entry(k).Mask.val

\* A snapshot whose work-item ID Z names a 32-bit scalar was parsed and
\* refused at that entry, after the masked work-item ID X before it had been
\* taken with its mask.
C16_Witness ==
    /\ Parsed
    /\ ret.source = "writeArgument"
    /\ YamlMFI.ArgInfo.args["WorkItemIDZ"].RegisterName = printReg(SGPR(4))
    /\ YamlMFI.ArgInfo.args["WorkItemIDX"].Mask = SomeMask(1023)
    /\ ret.result = TRUE
    /\ Diag = diagnoseRegisterClass("WorkItemIDZ")
    /\ ArgInfo["WorkItemIDX"] = createArg(createRegister(VGPR(0)), 1023)

(***************************************************************************)
(* The subtarget cache of the target machine:                              *)
(* R600TargetMachine::getSubtargetImpl and GCNTargetMachine::              *)
(* getSubtargetImpl.  Strings are sequences of characters; a subtarget     *)
(* object is known by its index in Subtargets, 0 is the null pointer.      *)
(***************************************************************************)
\* An attribute that is not on the function.
NoAttribute == [has |-> FALSE, val |-> << >>]

StringAttribute(s) == [has |-> TRUE, val |-> s]

\* The target machine's own processor name and feature string.
TargetCPU == <<"g">>

TargetFS == << >>

\* The functions looked up: with or without "target-cpu" and
\* "target-features".
CacheFunctions ==
    [cpu : {NoAttribute, StringAttribute(<<"g">>),
            StringAttribute(<<"g", "+", "x">>)},
     features : {NoAttribute, StringAttribute(<<"+", "x">>)}]

getGPUName(f) == IF ~f.cpu.has THEN TargetCPU ELSE f.cpu.val

getFeatureString(f) == IF ~f.features.has THEN TargetFS ELSE f.features.val

\* SmallString<128> SubtargetKey(GPU); SubtargetKey.append(FS);
SubtargetKey(GPU, FS) == GPU \o FS

\* A variant of IsCached that finds nothing.
IsCachedNever(map, Key) == FALSE

\* The slot of Key holds an object: I of "auto &I = SubtargetMap[Key]" is not
\* null.
IsCached(map, Key) == Key \in DOMAIN map /\ map[Key] # 0

\* llvm::make_unique<Subtarget>(TargetTriple, GPU, FS, *this): the object
\* remembers what it was built for; ScalarizeGlobal starts false.
NewSubtarget(GPU, FS) ==
    [GPU |-> GPU, FS |-> FS, ScalarizeGlobal |-> FALSE, alive |-> TRUE]

\* Only GCNTargetMachine::getSubtargetImpl calls setScalarizeGlobalBehavior.
ScalarizeGlobalWritten(kind) == kind = "GCN"

\* I->setScalarizeGlobalBehavior(ScalarizeGlobal) on the object id.
setScalarizeGlobalBehavior(objs, id, b) ==
    [objs EXCEPT ![id] = [@ EXCEPT !.ScalarizeGlobal = b]]

\* One whole getSubtargetImpl(F) call with no other call in progress.
getSubtargetImpl(f) ==
    LET GPU == getGPUName(f)
        FS == getFeatureString(f)
        Key == SubtargetKey(GPU, FS)
        cached == IsCached(SubtargetMap, Key)
        id == IF cached THEN SubtargetMap[Key] ELSE Len(Subtargets) + 1
        made == IF cached THEN Subtargets
                          ELSE Append(Subtargets, NewSubtarget(GPU, FS))
    IN  /\ SubtargetMap' = IF cached THEN SubtargetMap
                                     ELSE MapPut(SubtargetMap, Key, id)
        /\ Subtargets' = IF ScalarizeGlobalWritten(tm.kind)
                         THEN setScalarizeGlobalBehavior(made, id,
                                                         tm.ScalarizeGlobal)
                         ELSE made
        /\ tm' = [tm EXCEPT
                    !.resets = IF cached THEN @ ELSE @ + 1,
                    !.log = Append(@, [GPU |-> GPU, FS |-> FS, result |-> id,
                                       constructed |-> ~cached])]
        /\ ret' = [op |-> "getSubtargetImpl", GPU |-> GPU, FS |-> FS,
                   result |-> id,
                   wrote |-> IF ScalarizeGlobalWritten(tm.kind)
                             THEN {"ScalarizeGlobal"} ELSE {},
                   before |-> [SubtargetMap |-> SubtargetMap,
                               Subtargets |-> Subtargets,
                               resets |-> tm.resets]]

\* What the cache specifications leave alone: the function info.
tmFrame ==
    <<pc, F, HasStackObjects, calls, mfiVars, spillVars, hostVars, occVars,
      yamlVars>>

GetSubtargetImpl ==
    /\ Len(tm.log) < MaxLookups
    /\ \E f \in CacheFunctions : getSubtargetImpl(f)
    /\ UNCHANGED thr
    /\ UNCHANGED tmFrame

\* The host gives the option amdgpu-scalarize-global-loads another value
\* between two calls.
SetScalarizeGlobal ==
    /\ tm' = [tm EXCEPT !.ScalarizeGlobal = ~@]
    /\ UNCHANGED <<SubtargetMap, Subtargets, thr, ret>>
    /\ UNCHANGED tmFrame

\* A function info not yet constructed, beside which the cache runs.
IdleMFI ==
    /\ pc = "unconstructed"
    /\ F \in {f \in OccFunctions : f.CC = "AMDGPU_KERNEL"}
    /\ HasStackObjects = FALSE
    /\ IsEntryFunction = FALSE
    /\ Flags = InitFlags
    /\ Regs = DefaultRegs
    /\ ArgInfo = EmptyArgInfo
    /\ NumUserSGPRs = 0
    /\ NumSystemSGPRs = 0
    /\ SGPRToVGPRSpills = EmptyMap
    /\ NumVGPRSpillLanes = 0
    /\ SpillVGPRs = << >>
    /\ HostInit
    /\ calls = NoCalls
    /\ ret = NoCall
    /\ Occupancy = 0
    /\ WavesPerEU = DefaultWavesPerEU
    /\ Base = DefaultBase
    /\ IdleYaml

\* A target machine of either kind with an empty cache.
EmptyCache ==
    /\ SubtargetMap = << >>
    /\ Subtargets = << >>
    /\ tm \in [kind : {"R600", "GCN"}, ScalarizeGlobal : {TRUE},
               resets : {0}, log : {<< >>}]

InitTM ==
    /\ IdleMFI
    /\ EmptyCache
    /\ thr = << >>

NextTM == GetSubtargetImpl \/ SetScalarizeGlobal

SpecTM == InitTM /\ [][NextTM]_vars

(***************************************************************************)
(* Claims about the subtarget cache, calls made one after another.         *)
(***************************************************************************)
\* The (device-name, feature-string) pair of the i-th completed call.
LogPair(i) == <<tm.log[i].GPU, tm.log[i].FS>>

\* C17 as stated: in a series of getSubtargetImpl calls the first call for a
\* (device-name, feature-string) pair constructs and stores exactly one
\* object, every later call with that pair returns the same object and
\* constructs none, and resetTargetOptions runs on the constructing calls
\* only.
C17_AsClaimed ==
    LET n == Len(tm.log)
        First(i) == \A j \in 1 .. i - 1 : LogPair(j) # LogPair(i)
    IN  /\ \A i \in 1 .. n :
              IF First(i)
              THEN /\ tm.log[i].constructed
                   /\ \A j \in 1 .. i - 1 : tm.log[j].result # tm.log[i].result
              ELSE /\ ~tm.log[i].constructed
                   /\ \E j \in 1 .. i - 1 :
                         /\ LogPair(j) = LogPair(i)
                         /\ tm.log[j].result = tm.log[i].result
        /\ Len(Subtargets) = Cardinality({i \in 1 .. n : First(i)})
        /\ tm.resets = Cardinality({i \in 1 .. n : tm.log[i].constructed})

\* C19 as stated: two lookups whose device names or feature strings differ
\* never get the same cache slot or subtarget object.
C19_AsClaimed ==
    \A i, j \in 1 .. Len(tm.log) :
        LogPair(i) # LogPair(j) => tm.log[i].result # tm.log[j].result

\* The last step was a getSubtargetImpl call that found its key cached.
CachedLookup ==
    /\ ret.op = "getSubtargetImpl"
    /\ (ret.GPU \o ret.FS) \in DOMAIN ret.before.SubtargetMap
    /\ ret.before.SubtargetMap[ret.GPU \o ret.FS] # 0

Threads == {"t1", "t2"}

\* A thread outside getSubtargetImpl that has made no call.
IdleThread ==
    [pc |-> "idle", GPU |-> << >>, FS |-> << >>, Key |-> << >>,
     first |-> FALSE, result |-> 0, n |-> 0]

\* Thread t enters getSubtargetImpl(f): GPU, FS and SubtargetKey are its
\* locals.  first remembers that the key was not cached at the call.
Call(t) ==
    /\ thr[t].pc \in {"idle", "done"}
    /\ thr[t].n < MaxThreadCalls
    /\ \E f \in CacheFunctions :
          LET GPU == getGPUName(f)
              FS == getFeatureString(f)
          IN  thr' = [thr EXCEPT ![t] =
                         [pc |-> "lookup", GPU |-> GPU, FS |-> FS,
                          Key |-> SubtargetKey(GPU, FS),
                          first |-> ~IsCached(SubtargetMap,
                                              SubtargetKey(GPU, FS)),
                          result |-> 0, n |-> @.n + 1]]
    /\ UNCHANGED <<SubtargetMap, Subtargets, tm, ret>>
    /\ UNCHANGED tmFrame

\* auto &I = SubtargetMap[SubtargetKey]: a key not in the map gets a slot
\* holding null.
Lookup(t) ==
    /\ thr[t].pc = "lookup"
    /\ SubtargetMap' = IF thr[t].Key \in DOMAIN SubtargetMap
                       THEN SubtargetMap
                       ELSE MapPut(SubtargetMap, thr[t].Key, 0)
    /\ thr' = [thr EXCEPT ![t].pc = "test"]
    /\ UNCHANGED <<Subtargets, tm, ret>>
    /\ UNCHANGED tmFrame

\* if (!I)
Test(t) ==
    /\ thr[t].pc = "test"
    /\ thr' = [thr EXCEPT ![t].pc =
                  IF ~IsCached(SubtargetMap, thr[t].Key) THEN "reset"
                  ELSE IF ScalarizeGlobalWritten(tm.kind) THEN "set"
                  ELSE "return"]
    /\ UNCHANGED <<SubtargetMap, Subtargets, tm, ret>>
    /\ UNCHANGED tmFrame

\* resetTargetOptions(F)
Reset(t) ==
    /\ thr[t].pc = "reset"
    /\ tm' = [tm EXCEPT !.resets = @ + 1]
    /\ thr' = [thr EXCEPT ![t].pc = "make"]
    /\ UNCHANGED <<SubtargetMap, Subtargets, ret>>
    /\ UNCHANGED tmFrame

\* I = llvm::make_unique<Subtarget>(...): the new object goes into the slot;
\* the object the slot held, if another thread put one there meanwhile, is
\* destroyed.
Make(t) ==
    /\ thr[t].pc = "make"
    /\ LET old == SubtargetMap[thr[t].Key]
           made == Append(Subtargets, NewSubtarget(thr[t].GPU, thr[t].FS))
       IN  /\ Subtargets' = IF old = 0 THEN made
                            ELSE [made EXCEPT ![old] =
                                     [@ EXCEPT !.alive = FALSE]]
           /\ SubtargetMap' = MapPut(SubtargetMap, thr[t].Key, Len(made))
    /\ thr' = [thr EXCEPT ![t].pc =
                  IF ScalarizeGlobalWritten(tm.kind) THEN "set" ELSE "return"]
    /\ UNCHANGED <<tm, ret>>
    /\ UNCHANGED tmFrame

\* I->setScalarizeGlobalBehavior(ScalarizeGlobal), on the object the slot
\* holds now.
SetScalarize(t) ==
    /\ thr[t].pc = "set"
    /\ Subtargets' = setScalarizeGlobalBehavior(Subtargets,
                         SubtargetMap[thr[t].Key], tm.ScalarizeGlobal)
    /\ thr' = [thr EXCEPT ![t].pc = "return"]
    /\ UNCHANGED <<SubtargetMap, tm, ret>>
    /\ UNCHANGED tmFrame

\* return I.get()
Return(t) ==
    /\ thr[t].pc = "return"
    /\ thr' = [thr EXCEPT ![t].pc = "done",
                          ![t].result = SubtargetMap[thr[t].Key]]
    /\ ret' = [op |-> "getSubtargetImpl", thread |-> t]
    /\ UNCHANGED <<SubtargetMap, Subtargets, tm>>
    /\ UNCHANGED tmFrame

InitTMConc ==
    /\ IdleMFI
    /\ EmptyCache
    /\ thr = [t \in Threads |-> IdleThread]

NextTMConc ==
    \E t \in Threads :
        \/ Call(t)
        \/ Lookup(t)
        \/ Test(t)
        \/ Reset(t)
        \/ Make(t)
        \/ SetScalarize(t)
        \/ Return(t)

SpecTMConc == InitTMConc /\ [][NextTMConc]_vars

\* The objects constructed for the key Key.
ConstructedFor(Key) ==
    {i \in 1 .. Len(Subtargets) :
        SubtargetKey(Subtargets[i].GPU, Subtargets[i].FS) = Key}

\* C18 as stated: when two threads call getSubtargetImpl for the same key
\* that is not yet cached, then under every interleaving exactly one object
\* is constructed for the key and both calls return that object.
C18_AsClaimed ==
    \A t, u \in Threads :
        (/\ t # u
         /\ thr[t].pc = "done" /\ thr[u].pc = "done"
         /\ thr[t].first /\ thr[u].first
         /\ thr[t].Key = thr[u].Key)
            => /\ Cardinality(ConstructedFor(thr[t].Key)) = 1
               /\ thr[t].result = thr[u].result
               /\ thr[t].result \in ConstructedFor(thr[t].Key)

(***************************************************************************)
(* The allocator on stack objects of any size, also sizes no SGPR spill    *)
(* has.                                                                    *)
(***************************************************************************)
\* Byte sizes of the stack objects marked as SGPR spills: below 4, above 64,
\* not a multiple of 4, and sizes of 1, 15 and 16 lanes.
AnySpillSizes == {0, 2, 4, 6, 60, 62, 64, 66, 68}

\* The host marks a stack object of any of these sizes as an SGPR spill;
\* like CreateSGPRSpillObject, in ascending order of size.
CreateAnySpillObject ==
    /\ pc = "live"
    /\ Cardinality(SGPRSpillFIs) < MaxFrames
    /\ \E Size \in AnySpillSizes :
          /\ \A FI \in SGPRSpillFIs : getObjectSize(FI) <= Size
          /\ Objects' = Append(Objects, [Size |-> Size, Align |-> 4,
                                         StackID |-> SGPRSpillStackID])
    /\ UNCHANGED <<pc, ret, F, HasStackObjects, WaveSize, HasCalls, CSRegs,
                   UsedPhysRegs, LiveIns, calls>>
    /\ UNCHANGED mfiVars
    /\ UNCHANGED <<occVars, yamlVars, tmVars>>
    /\ UNCHANGED spillVars

NextSpillSize ==
    \/ AllocateSGPRSpillToVGPR
    \/ CreateAnySpillObject
    \/ UsePhysReg

SpecSpillSize == InitSpill /\ [][NextSpillSize]_vars

\* C21 as stated: for a slot whose size is below 4, above 64 or not a
\* multiple of 4, allocateSGPRSpillToVGPR ends in the failed assertion and
\* commits no lanes.
C21_AsClaimed ==
    (/\ ret.op = "allocateSGPRSpillToVGPR"
     /\ \/ getObjectSize(ret.FI) < 4
        \/ getObjectSize(ret.FI) > 64
        \/ (getObjectSize(ret.FI) % 4) # 0)
        => /\ pc = "aborted"
           /\ ret.FI \in DOMAIN SGPRToVGPRSpills => RetLanes = << >>
           /\ NumVGPRSpillLanes = ret.before

(***************************************************************************)
(* removeSGPRToVGPRFrameIndices, and the hosts of the frame and carrier    *)
(* specifications: a function with calls or without, an unused VGPR that   *)
(* is callee saved or not, a block added to the function.                  *)
(***************************************************************************)
\* MachineFrameInfo::RemoveStackObject(FI): the object is marked dead, its
\* size becomes ~0ULL (-1 here); frame indices keep their objects.
RemoveStackObject(objs, FI) ==
    [i \in DOMAIN objs |->
        IF i = FI + 1 THEN [objs[i] EXCEPT !.Size = -1] ELSE objs[i]]

isDeadObject(obj) == obj.Size = -1

\* MachineFrameInfo::setStackID(i, ID)
setStackID(objs, FI, ID) ==
    [i \in DOMAIN objs |->
        IF i = FI + 1 THEN [objs[i] EXCEPT !.StackID = ID] ELSE objs[i]]

\* A variant of RemovedFrameIndices that takes every object marked as an
\* SGPR spill.
RemovedFrameIndicesAllSpills(map) == SGPRSpillFIs

\* for (auto &R : SGPRToVGPRSpills) MFI.RemoveStackObject(R.first);
RemovedFrameIndices(map) == DOMAIN map

\* SIMachineFunctionInfo::removeSGPRToVGPRFrameIndices(MFI), which the host
\* calls when the frame has SGPR spill objects.
RemoveSGPRToVGPRFrameIndices ==
    /\ pc = "live"
    /\ SGPRSpillFIs # {}
    /\ LET R == RemovedFrameIndices(SGPRToVGPRSpills)
           removed == [i \in DOMAIN Objects |->
                          IF i - 1 \in R
                          THEN RemoveStackObject(Objects, i - 1)[i]
                          ELSE Objects[i]]
       IN  Objects' = [i \in DOMAIN Objects |->
                          setStackID(removed, i - 1, DefaultStackID)[i]]
    /\ ret' = [op |-> "removeSGPRToVGPRFrameIndices", before |-> Objects]
    /\ UNCHANGED <<pc, F, HasStackObjects, WaveSize, HasCalls, CSRegs,
                   UsedPhysRegs, LiveIns, calls>>
    /\ UNCHANGED mfiVars
    /\ UNCHANGED <<occVars, yamlVars, tmVars>>
    /\ UNCHANGED spillVars

\* Byte sizes of the SGPR spills of the frame specification: 1 and 16 lanes.
FrameSpillSizes == {4, 64}

\* The save slots of the carriers, which the allocator itself created.
SaveSlots == {i \in 1 .. Len(SpillVGPRs) : SpillVGPRs[i].FI # -1}

\* The host creates the stack object of one more SGPR spill, before or after
\* removeSGPRToVGPRFrameIndices; MaxFrames bounds how many it creates in all.
CreateFrameSpillObject ==
    /\ pc = "live"
    /\ Len(Objects) - Cardinality(SaveSlots) < MaxFrames
    /\ \E Size \in FrameSpillSizes :
          Objects' = Append(Objects, [Size |-> Size, Align |-> 4,
                                      StackID |-> SGPRSpillStackID])
    /\ UNCHANGED <<pc, ret, F, HasStackObjects, WaveSize, HasCalls, CSRegs,
                   UsedPhysRegs, LiveIns, calls>>
    /\ UNCHANGED mfiVars
    /\ UNCHANGED <<occVars, yamlVars, tmVars>>
    /\ UNCHANGED spillVars

\* The host adds one basic block to the function; it has no live-ins yet.
AddBasicBlock ==
    /\ pc = "live"
    /\ Len(LiveIns) = NumBlocks
    /\ LiveIns' = Append(LiveIns, {})
    /\ UNCHANGED <<pc, ret, F, HasStackObjects, WaveSize, Objects, HasCalls,
                   CSRegs, UsedPhysRegs, calls>>
    /\ UNCHANGED mfiVars
    /\ UNCHANGED <<occVars, yamlVars, tmVars>>
    /\ UNCHANGED spillVars

\* The frame specification: the allocator, the removal, and a host that adds
\* a block.
NextFrame ==
    \/ AllocateSGPRSpillToVGPR
    \/ CreateFrameSpillObject
    \/ UsePhysReg
    \/ AddBasicBlock
    \/ RemoveSGPRToVGPRFrameIndices

SpecFrame == InitSpill /\ [][NextFrame]_vars

\* The carrier specification: the allocator in functions with calls or
\* without, whose unused VGPR is callee saved or not.
InitCarrier ==
    /\ pc = "live"
    /\ F \in SpillFunctions
    /\ HasStackObjects = FALSE
    /\ Constructed(F, HasStackObjects)
    /\ IdleYaml
    /\ IdleTM
    /\ WaveSize \in WaveSizes
    /\ Objects = << >>
    /\ HasCalls \in BOOLEAN
    /\ CSRegs \in {{}, HighVGPRs}
    /\ UsedPhysRegs = {}
    /\ LiveIns = [b \in 1 .. NumBlocks |-> {}]
    /\ calls = NoCalls
    /\ ret = NoCall

NextCarrier ==
    \/ AllocateSGPRSpillToVGPR
    \/ CreateFrameSpillObject
    \/ UsePhysReg

SpecCarrier == InitCarrier /\ [][NextCarrier]_vars

(***************************************************************************)
(* Claims about the carrier list, the save slots, the live-ins and the     *)
(* frame.                                                                  *)
(***************************************************************************)
\* C22: the carrier list only grows: every step, of allocateSGPRSpillToVGPR
\* whether it succeeds or fails and of removeSGPRToVGPRFrameIndices, leaves
\* the list it found as a prefix of the list it leaves, so the list at any
\* later point has the list at any earlier point as a prefix.
C22_CarriersOnlyGrow ==
    [][/\ Len(SpillVGPRs) <= Len(SpillVGPRs')
       /\ SubSeq(SpillVGPRs', 1, Len(SpillVGPRs)) = SpillVGPRs]_vars

\* A carrier was claimed, removeSGPRToVGPRFrameIndices ran, and then a call
\* on a new slot failed: the carrier is still listed.
C22_Witness ==
    /\ Packed /\ ~ret.result
    /\ Len(SpillVGPRs) >= 1
    /\ \E i \in 1 .. Len(Objects) :
          isDeadObject(Objects[i]) /\ i - 1 \in DOMAIN SGPRToVGPRSpills

\* The carriers a step of the allocator has appended to the list.
NewCarriers == Len(SpillVGPRs) + 1 .. Len(SpillVGPRs')

\* C24: when a carrier is claimed, a save slot of 4 bytes, aligned to 4, is
\* created and paired with it if and only if the function has calls or is
\* not an entry function, and the carrier is callee saved; otherwise the
\* carrier is listed with no slot, and no other stack object is created.
C24_SaveSlotIffCalleeSaved ==
    [][\A FI \in SGPRSpillFIs :
          allocateSGPRSpillToVGPR(FI) =>
              /\ \A i \in NewCarriers :
                    LET c == SpillVGPRs'[i]
                    IN  /\ (c.FI # -1) <=>
                               ((HasCalls \/ ~IsEntryFunction)
                                    /\ c.VGPR \in CSRegs)
                        /\ c.FI # -1 =>
                               /\ c.FI + 1 \in Len(Objects) + 1 .. Len(Objects')
                               /\ Objects'[c.FI + 1] =
                                      [Size |-> 4, Align |-> 4,
                                       StackID |-> DefaultStackID]
                               /\ \A j \in NewCarriers :
                                     j # i => SpillVGPRs'[j].FI # c.FI
              /\ Len(Objects') = Len(Objects)
                     + Cardinality({i \in NewCarriers : SpillVGPRs'[i].FI # -1})
              /\ SubSeq(Objects', 1, Len(Objects)) = Objects]_vars

\* An entry function that has calls claimed a callee-saved carrier and got
\* its save slot.
C24_Witness ==
    /\ Packed /\ ret.result
    /\ IsEntryFunction /\ HasCalls
    /\ ret.before = 0
    /\ Len(SpillVGPRs) = 1
    /\ SpillVGPRs[1].VGPR \in CSRegs
    /\ SpillVGPRs[1].FI = Len(Objects) - 1
    /\ Objects[Len(Objects)].Size = 4

\* C25: a step that claims carriers adds them as live-ins to every block the
\* function has at that step and to nothing else, a step of the allocator that
\* claims none leaves the live-ins as they are, and no step removes a
\* live-in or a block: every carrier in the list is a live-in of every block
\* that existed when it was claimed.
C25_CarriersLiveIn ==
    [][/\ \A b \in DOMAIN LiveIns :
             b \in DOMAIN LiveIns' /\ LiveIns[b] \subseteq LiveIns'[b]
       /\ \A i \in 1 .. Len(SpillVGPRs') :
             \A b \in 1 .. NumBlocks : SpillVGPRs'[i].VGPR \in LiveIns'[b]
       /\ \A FI \in SGPRSpillFIs :
             allocateSGPRSpillToVGPR(FI) =>
                 /\ DOMAIN LiveIns' = DOMAIN LiveIns
                 /\ \A b \in DOMAIN LiveIns :
                       LiveIns'[b] = LiveIns[b]
                           \cup {SpillVGPRs'[i].VGPR : i \in NewCarriers}]_vars

\* A carrier was claimed after the host had added a block, and is a live-in
\* of that block too; lanes were then placed on it by another call.
C25_Witness ==
    /\ Packed /\ ret.result
    /\ Len(LiveIns) > NumBlocks
    /\ Len(SpillVGPRs) = 1
    /\ (ret.before % WaveSize) # 0
    /\ \A b \in DOMAIN LiveIns : LiveIns[b] = {SpillVGPRs[1].VGPR}

\* C26: removeSGPRToVGPRFrameIndices removes from the frame exactly the
\* objects whose frame index has an entry in the spill map, and leaves every
\* object of the frame with stack ID 0; nothing else of the frame changes.
C26_RemoveExactlyMapped ==
    [][RemoveSGPRToVGPRFrameIndices =>
          /\ Len(Objects') = Len(Objects)
          /\ \A i \in 1 .. Len(Objects) :
                /\ isDeadObject(Objects'[i]) <=>
                       (i - 1 \in DOMAIN SGPRToVGPRSpills
                            \/ isDeadObject(Objects[i]))
                /\ Objects'[i].StackID = 0
                /\ Objects'[i].Align = Objects[i].Align
                /\ ~isDeadObject(Objects'[i]) =>
                       Objects'[i].Size = Objects[i].Size
          /\ SGPRToVGPRSpills' = SGPRToVGPRSpills]_vars

\* The removal took a slot that had lanes and left a slot whose allocation
\* had failed, now an object of the default stack.
C26_Witness ==
    /\ ret.op = "removeSGPRToVGPRFrameIndices"
    /\ \E i, j \in 1 .. Len(Objects) :
          /\ i - 1 \in DOMAIN SGPRToVGPRSpills
          /\ isDeadObject(Objects[i])
          /\ ret.before[j].StackID = SGPRSpillStackID
          /\ j - 1 \notin DOMAIN SGPRToVGPRSpills
          /\ Objects[j] = [ret.before[j] EXCEPT !.StackID = DefaultStackID]

C27_EntryWaveOffsetElseFixedRegs ==
    pc = "live" =>
        /\ isEntryFunctionCC(F.CC) => Flags.PrivateSegmentWaveByteOffset
        /\ ~isEntryFunctionCC(F.CC) =>
               /\ ~Flags.PrivateSegmentWaveByteOffset
               /\ Regs = [ScratchRSrcReg |-> [cls |-> "SReg_128", idx |-> 0],
                          ScratchWaveOffsetReg |-> SGPR(33),
                          FrameOffsetReg |-> SGPR(5),
                          StackPtrOffsetReg |-> SGPR(32)]
               /\ ArgInfo.PrivateSegmentBuffer =
                      createRegister([cls |-> "SReg_128", idx |-> 0])
               /\ ArgInfo.PrivateSegmentWaveByteOffset =
                      createRegister(SGPR(33))
               /\ NumUserSGPRs = 0 /\ NumSystemSGPRs = 0

\* A callable function was constructed: its wave offset is SGPR33, in the
\* register field and in the argument table, without the need flag.
C27_Witness ==
    /\ pc = "live" /\ ret.op = "SIMachineFunctionInfo"
    /\ F.CC = "C" /\ ~IsEntryFunction
    /\ Regs.ScratchWaveOffsetReg = SGPR(33)
    /\ ArgInfo.PrivateSegmentWaveByteOffset.IsSet
    /\ ~Flags.PrivateSegmentWaveByteOffset

\* C28: after construction FlatScratchInit is set if and only if the target
\* has a flat address space, the function is an entry function under the
\* HSA or Mesa ABI, and it has stack objects or the attribute
\* amdgpu-flat-scratch: stack objects alone, without the attribute, force it.
C28_FlatScratchInitIff ==
    pc = "live" =>
        (Flags.FlatScratchInit <=>
            /\ F.HasFlatAddressSpace
            /\ isEntryFunctionCC(F.CC)
            /\ F.IsAmdHsaOrMesa
            /\ (HasStackObjects \/ "amdgpu-flat-scratch" \in F.Attrs))

\* A kernel with stack objects and without the attribute got the flag.
C28_Witness ==
    /\ pc = "live" /\ ret.op = "SIMachineFunctionInfo"
    /\ Flags.FlatScratchInit
    /\ HasStackObjects
    /\ "amdgpu-flat-scratch" \notin F.Attrs

\* C29: the snapshot has an argument block if and only if at least one
\* descriptor of the argument table is set; the block has an entry for
\* exactly the set descriptors, with the register's name for a register and
\* the stack offset for a stack slot, and with a mask exactly when the
\* descriptor's mask is not ~0u, the mask being the descriptor's.
C29_ArgumentBlockIffPresent ==
    [][Serialize =>
          LET AI == YamlMFI'.ArgInfo
          IN  /\ AI.has <=> (\E k \in ArgKinds : ArgInfo[k].IsSet)
              /\ \A k \in ArgKinds :
                    LET A == AI.args[k]
                        D == ArgInfo[k]
                    IN  /\ A.has <=> D.IsSet
                        /\ D.IsSet =>
                               /\ A.IsRegister <=> ~D.IsStack
                               /\ ~D.IsStack =>
                                      A.RegisterName = printReg(D.Register)
                               /\ D.IsStack => A.StackOffset = D.StackOffset
                               /\ A.Mask.has <=> (D.Mask # -1)
                               /\ A.Mask.has => A.Mask.val = D.Mask]_vars

\* A snapshot was taken of a function whose table has a register and a
\* masked stack slot: the block names the one and gives the offset and the
\* mask of the other, and has no entry for an unset descriptor.
C29_Witness ==
    /\ pc = "saved" /\ ret.op = "serialize"
    /\ YamlMFI = CurrentYaml
    /\ YamlMFI.ArgInfo.has
    /\ \E k \in ArgKinds :
          /\ YamlMFI.ArgInfo.args[k].has
          /\ YamlMFI.ArgInfo.args[k].IsRegister
          /\ ~YamlMFI.ArgInfo.args[k].Mask.has
    /\ \E k \in ArgKinds :
          /\ YamlMFI.ArgInfo.args[k].has
          /\ ~YamlMFI.ArgInfo.args[k].IsRegister
          /\ YamlMFI.ArgInfo.args[k].StackOffset = 4
          /\ YamlMFI.ArgInfo.args[k].Mask = SomeMask(1023)
    /\ \E k \in ArgKinds : ~YamlMFI.ArgInfo.args[k].has

\* C30: the parse resolves the names of ScratchRSrcReg, ScratchWaveOffsetReg,
\* FrameOffsetReg and StackPtrOffsetReg in this order before it tests any
\* class: when a name does not resolve, the diagnostic is that of the first
\* such field, whatever the classes of the others; when all resolve, the
\* diagnostic is "incorrect register class for field" at the first field, in
\* the same order, whose register is neither its placeholder nor in its
\* class; and a parse that gets past the fixed registers has, in each of the
\* last three fields, that field's placeholder or a register of SGPR_32.
C30_NamesBeforeClasses ==
    Parsed =>
        LET Order == <<"ScratchRSrcReg", "ScratchWaveOffsetReg",
                       "FrameOffsetReg", "StackPtrOffsetReg">>
            Placeholder == <<PRIVATE_RSRC_REG, SCRATCH_WAVE_OFFSET_REG,
                             FP_REG, SP_REG>>
            Class == <<"SReg_128", "SGPR_32", "SGPR_32", "SGPR_32">>
            Unresolved == {i \in 1 .. 4 : ~Resolves(YamlMFI[Order[i]])}
            Mismatched ==
                {i \in 1 .. 4 :
                    /\ Named(YamlMFI[Order[i]]) # Placeholder[i]
                    /\ Named(YamlMFI[Order[i]]).cls # Class[i]}
            First(S) == CHOOSE i \in S : \A j \in S : i <= j
        IN  /\ Unresolved # {} =>
                   /\ ret.result = TRUE
                   /\ Diag = [Error |-> "unknown register name",
                              SourceRange |-> Order[First(Unresolved)]]
            /\ (Unresolved = {} /\ Mismatched # {}) =>
                   /\ ret.result = TRUE
                   /\ Diag = [Error |-> "incorrect register class for field",
                              SourceRange |-> Order[First(Mismatched)]]
            /\ (ret.result = FALSE
                    \/ \A i \in 1 .. 4 : Diag.SourceRange # Order[i]) =>
                   \A i \in 2 .. 4 :
                       \/ Named(YamlMFI[Order[i]]) = Placeholder[i]
                       \/ Named(YamlMFI[Order[i]]).cls = "SGPR_32"

\* A snapshot whose scratch resource is a 32-bit scalar and whose wave
\* offset names no register was parsed: the unknown name is what is reported.
C30_Witness ==
    /\ Parsed
    /\ YamlMFI.ScratchRSrcReg = printReg(SGPR(0))
    /\ YamlMFI.ScratchWaveOffsetReg = <<"$bogus">>
    /\ ret.result = TRUE
    /\ Diag = diagnoseUnknownRegister("ScratchWaveOffsetReg")

(***************************************************************************)
(* The lane specification: the allocator over one slot more than the       *)
(* other spill specifications have, so that lanes given back by a failed   *)
(* call are given out again to another slot.                               *)
(***************************************************************************)
LaneSpillSizes == {4, 64}

\* The host creates the stack object of one more SGPR spill, in ascending
\* order of size.
CreateLaneSpillObject ==
    /\ pc = "live"
    /\ Cardinality(SGPRSpillFIs) < MaxFrames + 1
    /\ \E Size \in LaneSpillSizes :
          /\ \A FI \in SGPRSpillFIs : getObjectSize(FI) <= Size
          /\ Objects' = Append(Objects, [Size |-> Size, Align |-> 4,
                                         StackID |-> SGPRSpillStackID])
    /\ UNCHANGED <<pc, ret, F, HasStackObjects, WaveSize, HasCalls, CSRegs,
                   UsedPhysRegs, LiveIns, calls>>
    /\ UNCHANGED mfiVars
    /\ UNCHANGED <<occVars, yamlVars, tmVars>>
    /\ UNCHANGED spillVars

\* The wavefront is the narrowest, where a value of 16 lanes fills a carrier.
InitLanes ==
    /\ InitSpill
    /\ WaveSize = 16

NextLanes ==
    \/ AllocateSGPRSpillToVGPR
    \/ CreateLaneSpillObject
    \/ UsePhysReg

SpecLanes == InitLanes /\ [][NextLanes]_vars

\* The committed lanes: a slot of the spill map and a position in its list.
CommittedLanes ==
    {l \in (DOMAIN SGPRToVGPRSpills) \X (1 .. 16) :
        l[2] <= Len(SGPRToVGPRSpills[l[1]])}

\* Every carrier of the list is another register than the others.
CarriersDiffer ==
    \A i, j \in 1 .. Len(SpillVGPRs) :
        i # j => SpillVGPRs[i].VGPR # SpillVGPRs[j].VGPR

RECURSIVE LanesOf(_)
LanesOf(S) ==
    IF S = {}
    THEN 0
    ELSE LET FI == CHOOSE x \in S : TRUE
         IN  Len(SGPRToVGPRSpills[FI]) + LanesOf(S \ {FI})

\* C32: between calls, whatever calls succeeded or failed, and for every
\* wavefront size from 16 on, NumVGPRSpillLanes is the number of lanes in
\* all the lists of the spill map, and the carrier list has
\* ceil(NumVGPRSpillLanes / WaveSize) carriers.
C32_CounterConsistency ==
    (pc = "live" /\ WaveSize >= 16) =>
        /\ NumVGPRSpillLanes = LanesOf(DOMAIN SGPRToVGPRSpills)
        /\ Len(SpillVGPRs) = (NumVGPRSpillLanes + WaveSize - 1) \div WaveSize

\* A call failed after it had placed lanes on the carrier in use: the
\* counter is back at the lanes of the other slot, on the one carrier.
C32_Witness ==
    /\ Packed /\ ~ret.result
    /\ NumVGPRSpillLanes = ret.before
    /\ (NumVGPRSpillLanes % WaveSize) # 0
    /\ NumVGPRSpillLanes = LanesOf(DOMAIN SGPRToVGPRSpills)
    /\ Len(SpillVGPRs) = 1

\* C33: a call of allocateSGPRSpillToVGPR that fails, its value having no
\* more lanes than the wavefront, leaves the carrier list, the stack objects
\* (so the save slots of the carriers), the live-ins of the blocks and the
\* lane list of every other slot as they were before the call.
C33_FailedCallChangesNothing ==
    [][\A FI \in SGPRSpillFIs :
          (/\ allocateSGPRSpillToVGPR(FI)
           /\ ~ret'.result
           /\ getObjectSize(FI) \div 4 <= WaveSize) =>
              /\ SpillVGPRs' = SpillVGPRs
              /\ Objects' = Objects
              /\ LiveIns' = LiveIns
              /\ DOMAIN SGPRToVGPRSpills' \ {FI} = DOMAIN SGPRToVGPRSpills \ {FI}
              /\ \A Other \in DOMAIN SGPRToVGPRSpills \ {FI} :
                    SGPRToVGPRSpills'[Other] = SGPRToVGPRSpills[Other]]_vars

\* A call failed after it had placed lanes, in a function whose carrier has
\* a save slot and is a live-in, and another slot has its lanes.
C33_Witness ==
    /\ Packed /\ ~ret.result
    /\ (ret.before % WaveSize) # 0
    /\ Len(SpillVGPRs) = 1 /\ SpillVGPRs[1].FI # -1
    /\ \A b \in DOMAIN LiveIns : SpillVGPRs[1].VGPR \in LiveIns[b]
    /\ \E Other \in DOMAIN SGPRToVGPRSpills :
          Other # ret.FI /\ SGPRToVGPRSpills[Other] # << >>

(***************************************************************************)
(* The retry specification: the allocator, the removal, and a host whose   *)
(* VGPRs come into use and out of use again, so that a call that failed    *)
(* is made again when a register is free.                                  *)
(***************************************************************************)
\* The host deletes the instructions that used a VGPR: the register is
\* unused again.
FreePhysReg ==
    /\ pc = "live"
    /\ \E Reg \in UsedPhysRegs :
          UsedPhysRegs' = UsedPhysRegs \ {Reg}
    /\ UNCHANGED <<pc, ret, F, HasStackObjects, WaveSize, Objects, HasCalls,
                   CSRegs, LiveIns, calls>>
    /\ UNCHANGED mfiVars
    /\ UNCHANGED <<occVars, yamlVars, tmVars>>
    /\ UNCHANGED spillVars

NextRetry ==
    \/ AllocateSGPRSpillToVGPR
    \/ CreateFrameSpillObject
    \/ UsePhysReg
    \/ FreePhysReg
    \/ RemoveSGPRToVGPRFrameIndices

SpecRetry == InitLanes /\ [][NextRetry]_vars

\* C34: between calls every entry of the spill map has lanes.  A slot whose
\* packing fails is left without entry, so a call on a slot without entry
\* goes through the packing again, not through the early return, and
\* succeeds when a VGPR is unused; and removeSGPRToVGPRFrameIndices leaves a
\* slot without entry in the frame.
C34_EntriesHaveLanes ==
    [][/\ pc' = "live" =>
             \A FI \in DOMAIN SGPRToVGPRSpills' :
                 SGPRToVGPRSpills'[FI] # << >>
       /\ \A FI \in SGPRSpillFIs :
             allocateSGPRSpillToVGPR(FI) =>
                 /\ ~ret'.result => FI \notin DOMAIN SGPRToVGPRSpills'
                 /\ FI \notin DOMAIN SGPRToVGPRSpills =>
                        /\ ret'.packed
                        /\ VGPR_32RegClass \ UsedPhysRegs # {} =>
                               /\ ret'.result
                               /\ FI \in DOMAIN SGPRToVGPRSpills'
       /\ RemoveSGPRToVGPRFrameIndices =>
             \A i \in 1 .. Len(Objects) :
                 (i - 1 \notin DOMAIN SGPRToVGPRSpills
                      /\ ~isDeadObject(Objects[i]))
                     => ~isDeadObject(Objects'[i])]_vars

\* A call failed while another slot has its lanes: the failed slot has no
\* entry, is still an SGPR spill object of the frame, and no VGPR is unused.
C34_Witness ==
    /\ Packed /\ ~ret.result
    /\ ret.FI \notin DOMAIN SGPRToVGPRSpills
    /\ ret.FI \in SGPRSpillFIs
    /\ DOMAIN SGPRToVGPRSpills # {}
    /\ VGPR_32RegClass \ UsedPhysRegs = {}

\* The descriptor parseAndCheckArgument makes of a snapshot entry it accepts.
DescriptorOf(A) ==
    LET d == IF A.IsRegister
             THEN [IsSet |-> TRUE, IsStack |-> FALSE,
                   Register |-> Named(A.RegisterName),
                   StackOffset |-> 0, Mask |-> -1]
             ELSE [IsSet |-> TRUE, IsStack |-> TRUE, Register |-> NoRegister,
                   StackOffset |-> A.StackOffset, Mask |-> -1]
    IN  IF A.Mask.has THEN [d EXCEPT !.Mask = A.Mask.val] ELSE d

\* The position of an argument kind in the order of the calls.
PositionOf(kind) == CHOOSE i \in 1 .. Len(ArgOrder) : ArgOrder[i] = kind

\* C35: a parse that fails is not undone.  When it fails on the class of a
\* fixed register, the seven summary members and the four fixed registers
\* hold the snapshot's values, the rejected register among them.  When it
\* fails on an argument entry, every earlier slot, in the order of the calls,
\* that has an entry holds that entry's descriptor, the failing slot and the
\* later slots hold what the function info had before the parse.
C35_FailedParseNotAtomic ==
    (Parsed /\ ret.result = TRUE) =>
        /\ (/\ Diag.Error = "incorrect register class for field"
            /\ Diag.SourceRange \in
                   {"ScratchRSrcReg", "ScratchWaveOffsetReg",
                    "FrameOffsetReg", "StackPtrOffsetReg"}) =>
               /\ Base.ExplicitKernArgSize = YamlMFI.ExplicitKernArgSize
               /\ Base.MaxKernArgAlign = YamlMFI.MaxKernArgAlign
               /\ Base.LDSSize = YamlMFI.LDSSize
               /\ IsEntryFunction = YamlMFI.IsEntryFunction
               /\ Base.NoSignedZerosFPMath = YamlMFI.NoSignedZerosFPMath
               /\ Base.MemoryBound = YamlMFI.MemoryBound
               /\ Base.WaveLimiter = YamlMFI.WaveLimiter
               /\ Regs.ScratchRSrcReg = Named(YamlMFI.ScratchRSrcReg)
               /\ Regs.ScratchWaveOffsetReg =
                      Named(YamlMFI.ScratchWaveOffsetReg)
               /\ Regs.FrameOffsetReg = Named(YamlMFI.FrameOffsetReg)
               /\ Regs.StackPtrOffsetReg = Named(YamlMFI.StackPtrOffsetReg)
               /\ ArgInfo = CtorArgInfo(F)
        /\ Diag.SourceRange \in ArgKinds =>
               \A kind \in ArgKinds :
                   IF /\ PositionOf(kind) < PositionOf(Diag.SourceRange)
                      /\ YamlMFI.ArgInfo.args[kind].has
                   THEN ArgInfo[kind] =
                            DescriptorOf(YamlMFI.ArgInfo.args[kind])
                   ELSE ArgInfo[kind] = CtorArgInfo(F)[kind]

\* A parse failed on an argument entry after it had written the base
\* members and an earlier slot; the failing slot is unset as before.
C35_Witness ==
    /\ Parsed /\ ret.result = TRUE
    /\ Diag.SourceRange \in ArgKinds
    /\ \E kind \in ArgKinds :
          /\ PositionOf(kind) < PositionOf(Diag.SourceRange)
          /\ YamlMFI.ArgInfo.args[kind].has
          /\ ArgInfo[kind] # CtorArgInfo(F)[kind]
    /\ ~ArgInfo[Diag.SourceRange].IsSet
    /\ Base = LoweredBase

\* C36: the parse never clears a slot of the argument table.  A slot that has
\* no entry in the snapshot, and every slot when the snapshot has no
\* argument block, holds after the parse the descriptor the function info
\* had before it, as constructed; and an entry that is a stack offset is
\* never refused: when the parse succeeds its slot holds the stack
\* descriptor, whatever the register class of the kind.
C36_ParseNeverClearsSlot ==
    Parsed =>
        \A kind \in ArgKinds :
            LET A == YamlMFI.ArgInfo.args[kind]
            IN  /\ (~YamlMFI.ArgInfo.has \/ ~A.has) =>
                       ArgInfo[kind] = CtorArgInfo(F)[kind]
                /\ (YamlMFI.ArgInfo.has /\ A.has /\ ~A.IsRegister) =>
                       /\ Diag.SourceRange # kind
                       /\ ret.result = FALSE =>
                              /\ ArgInfo[kind].IsStack
                              /\ ArgInfo[kind].StackOffset = A.StackOffset

\* The snapshot of a callable function lost its argument block and was
\* parsed: the two descriptors the constructor wires are in their slots.
C36_Witness ==
    /\ Parsed /\ ret.result = FALSE
    /\ ~YamlMFI.ArgInfo.has
    /\ ~IsEntryFunction
    /\ ArgInfo.PrivateSegmentBuffer.IsSet
    /\ ArgInfo.PrivateSegmentWaveByteOffset = createRegister(SGPR(33))

====
